---- MODULE Spec2Model ----
(***************************************************************************)
(* Sudoku generation and solving engine (src/app/libs/firebase.ts, the     *)
(* module the rest of the application imports as "../libs/sudoku").        *)
(*                                                                         *)
(* A board is a function over the indices 0..80.  A blank cell (null in    *)
(* the source) is NULL.  A 32-bit integer is a record [h, l] of its two    *)
(* unsigned 16-bit halves, so that every intermediate stays inside TLC's   *)
(* integers while the arithmetic wraps exactly as the source's does.       *)
(* A string is a sequence of one-character strings.                        *)
(***************************************************************************)
EXTENDS Integers, Sequences, FiniteSets, TLC

\* ------------------------------------------------------------ constants

ROW_SIZE == 9
BOX_SIZE == 3
BOARD_SIZE == ROW_SIZE * ROW_SIZE
NULL == -1

Indices == 0 .. (BOARD_SIZE - 1)

\* const DIGITS = [1, ..., 9]: the initial content of the module-level array.
DIGITS_INIT == <<1, 2, 3, 4, 5, 6, 7, 8, 9>>

Difficulties == {"easy", "medium", "hard", "expert"}

\* a faulty table: the targets of "medium" and "hard" exchanged
difficultyToEmptiesSwapped ==
  [d \in Difficulties |->
     CASE d = "easy" -> 36
       [] d = "medium" -> 53
       [] d = "hard" -> 45
       [] d = "expert" -> 58]

difficultyToEmpties ==
  [d \in Difficulties |->
     CASE d = "easy" -> 36
       [] d = "medium" -> 45
       [] d = "hard" -> 53
       [] d = "expert" -> 58]

\* ---------------------------------------------------------------- PEERS

\* The indices the two loops of lines 109-120 add to the Set for `index`.
PeerAdds(index) ==
  LET row == index \div ROW_SIZE
      col == index % ROW_SIZE
      boxRow == (row \div BOX_SIZE) * BOX_SIZE
      boxCol == (col \div BOX_SIZE) * BOX_SIZE
  IN  {row * ROW_SIZE + i : i \in 0 .. (ROW_SIZE - 1)}
        \cup {i * ROW_SIZE + col : i \in 0 .. (ROW_SIZE - 1)}
        \cup {(boxRow + r) * ROW_SIZE + (boxCol + c) :
                r \in 0 .. (BOX_SIZE - 1), c \in 0 .. (BOX_SIZE - 1)}

\* a faulty PeersOf: the Set is returned without set.delete(index)
PeersOfKeep(index) == PeerAdds(index)

\* set.delete(index); return Array.from(set)
PeersOf(index) == PeerAdds(index) \ {index}

PEERS == [index \in Indices |-> PeersOf(index)]

\* ------------------------------------------------- 32-bit integer words

W16 == 65536

Word(h, l) == [h |-> h, l |-> l]

\* 0x6d2b79f5
MIX == Word(27947, 31221)

RECURSIVE Xor16(_, _, _)
Xor16(a, b, n) ==
  IF n = 0 THEN 0
  ELSE ((a + b) % 2) + 2 * Xor16(a \div 2, b \div 2, n - 1)

RECURSIVE Or16(_, _, _)
Or16(a, b, n) ==
  IF n = 0 THEN 0
  ELSE (IF a % 2 = 1 \/ b % 2 = 1 THEN 1 ELSE 0)
         + 2 * Or16(a \div 2, b \div 2, n - 1)

\* In the operators on words the arguments are bound as values (x, y), so
\* that an argument is computed once however often it is used.
Xor32(a, b) ==
  CHOOSE w \in {Word(Xor16(x.h, y.h, 16), Xor16(x.l, y.l, 16)) :
                  x \in {a}, y \in {b}} : TRUE

\* c | a for a constant 0 <= c < 2^16
OrLow(c, a) == CHOOSE w \in {Word(x.h, Or16(c, x.l, 16)) : x \in {a}} : TRUE

\* (a + b) | 0
Add32(a, b) ==
  CHOOSE w \in {Word((x.h + y.h + (x.l + y.l) \div W16) % W16,
                      (x.l + y.l) % W16) : x \in {a}, y \in {b}} : TRUE

\* (a - b) | 0
Sub32(a, b) ==
  LET lo == a.l - b.l + W16
  IN  Word((a.h - b.h + W16 + (lo \div W16) - 1) % W16, lo % W16)

\* a >>> k for 0 < k < 16
Shr(a, k) ==
  CHOOSE w \in {Word(x.h \div p, (x.h % p) * (W16 \div p) + x.l \div p) :
                  x \in {a}, p \in {2 ^ k}} : TRUE

\* (a << 5) | 0
Shl5(a) == Word((a.h * 32 + a.l \div 2048) % W16, (a.l * 32) % W16)

\* the low 16 bits of x * y for 16-bit x, y
MulLo16(x, y) == ((x % 256) * y + (((x \div 256) * y) % 256) * 256) % W16

\* Math.imul(a, b): the low 32 bits of the product
Imul(a, b) ==
  CHOOSE w \in
    {LET p0 == (x.l % 256) * y.l
         p1 == (x.l \div 256) * y.l
         low == p0 + (p1 % 256) * 256
         carry == low \div W16 + p1 \div 256
     IN  Word((carry + MulLo16(x.h, y.l) + MulLo16(x.l, y.h)) % W16, low % W16) :
       x \in {a}, y \in {b}} : TRUE

\* a numeric seed that is a small natural, as a 32-bit word
NumWord(n) == Word(n \div W16, n % W16)

\* ---------------------------------------------------- createSeededRandom

\* the loop of lines 132-135 over the char codes of a string seed
RECURSIVE HashFrom(_, _, _)
HashFrom(codes, i, value) ==
  IF i > Len(codes) THEN value
  ELSE HashFrom(codes, i + 1,
                Add32(Sub32(Shl5(value), value), NumWord(codes[i])))

\* A seed is [kind |-> "number", n |-> Nat] or [kind |-> "string", codes |-> Seq].
\* The closure's initial `state`.
createSeededRandom(seed) ==
  LET value == IF seed.kind = "number" THEN NumWord(seed.n)
               ELSE HashFrom(seed.codes, 1, NumWord(0))
  IN  Xor32(value, MIX)

\* One call of the closure: the new `state`, and the numerator n of the
\* returned float n / 4294967296.
RngNext(state) ==
  CHOOSE r \in
    {LET t1 == Imul(Xor32(s, Shr(s, 15)), OrLow(1, s))
         t2 == CHOOSE t \in
                 {Xor32(Add32(x, Imul(Xor32(x, Shr(x, 7)), OrLow(61, x))), x) :
                    x \in {t1}} : TRUE
     IN  CHOOSE out \in {[state |-> s, n |-> Xor32(x, Shr(x, 14))] :
                           x \in {t2}} : TRUE :
       s \in {Add32(state, MIX)}} : TRUE

\* a faulty index: Math.ceil for Math.floor (n is never 0 here)
CeilMul(n, m) == (n.h * m + (n.l * m) \div W16) \div W16 + 1

\* Math.floor((n / 4294967296) * m) for 1 <= m <= 81 (exact in doubles)
FloorMul(n, m) == (n.h * m + (n.l * m) \div W16) \div W16

\* ---------------------------------------------------------------- shuffle

\* a faulty swap: array[i] = array[j] alone
SwapOver(array, i, j) == [array EXCEPT ![i + 1] = array[j + 1]]

\* [array[i], array[j]] = [array[j], array[i]] on a 1-based sequence holding
\* the 0-based array
Swap(array, i, j) ==
  [array EXCEPT ![i + 1] = array[j + 1], ![j + 1] = array[i + 1]]

\* One iteration of the loop of lines 149-152 on a = [array, state, i], where
\* state is the generator's: j = Math.floor(rng() * (i + 1)), the swap, i--.
ShuffleStep(a) ==
  CHOOSE next \in {[array |-> Swap(a.array, a.i, FloorMul(r.n, a.i + 1)),
                     state |-> r.state,
                     i |-> a.i - 1] : r \in {RngNext(a.state)}} : TRUE

\* Up to n iterations of the loop from a, while its condition i > 0 holds
\* (evaluated by halves).
RECURSIVE ShuffleLoop(_, _)
ShuffleLoop(a, n) ==
  IF ~(a.i > 0) \/ n = 0 THEN a
  ELSE IF n = 1 THEN ShuffleStep(a)
  ELSE CHOOSE last \in {ShuffleLoop(half, n - n \div 2) :
                           half \in {ShuffleLoop(a, n \div 2)}} : TRUE

\* a faulty shuffle: the loop runs on `items` itself, not on items.slice()
shuffleInPlace(items, state) ==
  LET a == ShuffleLoop([array |-> items, state |-> state, i |-> Len(items) - 1],
                       Len(items))
  IN  [array |-> a.array, state |-> a.state, items |-> a.array]

\* shuffle(items, rng): `array` is the returned array, built on items.slice();
\* `state` is the generator's state after the calls made; `items` is the
\* argument array as the call leaves it.
shuffle(items, state) ==
  CHOOSE sh \in
    {[array |-> a.array, state |-> a.state, items |-> items] :
       a \in {ShuffleLoop([array |-> items, state |-> state,
                           i |-> Len(items) - 1], Len(items))}} : TRUE

\* ------------------------------------------------------ isValidPlacement

\* a faulty isValidPlacement: the cell itself is compared too
isValidPlacementSelf(board, index, value) ==
  \A peerIndex \in PEERS[index] \cup {index} : board[peerIndex] # value

isValidPlacement(board, index, value) ==
  \A peerIndex \in PEERS[index] : board[peerIndex] # value

\* ----------------------------------------------------------------- boards

EmptyBoard == [index \in Indices |-> NULL]

\* cell ?? 0
OrZero(cell) == IF cell = NULL THEN 0 ELSE cell

\* ----------------------------------------------------------- solveSudoku

\* DIGITS.filter((digit) => isValidPlacement(board, index, digit))
Candidates(digits, board, index) ==
  SelectSeq(digits, LAMBDA digit : isValidPlacement(board, index, digit))

\* One iteration of findBestCell's loop (lines 188-195) on the loop's
\* variables `acc`; acc.done is set by `return index` and by `break`.
BestStep(digits, board, index, acc) ==
  IF board[index] # NULL THEN acc
  ELSE LET n == Len(Candidates(digits, board, index))
       IN  IF n = 0 THEN [bestIndex |-> index, minCandidates |-> acc.minCandidates, done |-> TRUE]
           ELSE IF n < acc.minCandidates
           THEN [bestIndex |-> index, minCandidates |-> n, done |-> (n = 1)]
           ELSE acc

\* The iterations lo..hi of the loop, in order (evaluated by halves; the
\* loop's variables after the first half are bound as `left`, a value, so
\* that they are computed once).
RECURSIVE BestRange(_, _, _, _, _)
BestRange(digits, board, lo, hi, acc) ==
  IF acc.done \/ lo > hi THEN acc
  ELSE IF lo = hi THEN BestStep(digits, board, lo, acc)
  ELSE LET mid == (lo + hi) \div 2
       IN  CHOOSE best \in {BestRange(digits, board, mid + 1, hi, left) :
                              left \in {BestRange(digits, board, lo, mid, acc)}} :
             TRUE

findBestCell(digits, board) ==
  BestRange(digits, board, 0, BOARD_SIZE - 1,
            [bestIndex |-> -1, minCandidates |-> 10, done |-> FALSE]).bestIndex

\* limit = Infinity: no counter reaches it
Infinity == 2147483647

\* firstSolution = null
NoSolution == << >>

\* ---------------------------------------------------------------- codec

DigitChars == <<"0", "1", "2", "3", "4", "5", "6", "7", "8", "9">>

\* String(n) of a natural number: its decimal digits
RECURSIVE NumberToString(_)
NumberToString(n) ==
  IF n < 10 THEN <<DigitChars[n + 1]>>
  ELSE NumberToString(n \div 10) \o <<DigitChars[(n % 10) + 1]>>

\* strings[lo] + ... + strings[hi], as join("") concatenates them
RECURSIVE JoinRange(_, _, _)
JoinRange(strings, lo, hi) ==
  IF lo > hi THEN << >>
  ELSE IF lo = hi THEN strings[lo]
  ELSE JoinRange(strings, lo, (lo + hi) \div 2)
         \o JoinRange(strings, (lo + hi) \div 2 + 1, hi)

\* strings.join("")
Join(strings) == JoinRange(strings, 1, Len(strings))

\* what Array.prototype.join makes of an element: null gives ""
JoinItem(cell) == IF cell = NULL THEN << >> ELSE NumberToString(cell)

\* Number.parseInt(char, 10) of a one-character string: NaN unless a digit
ParseInt(char) ==
  IF \E n \in 0 .. 9 : DigitChars[n + 1] = char
  THEN [nan |-> FALSE, value |-> CHOOSE n \in 0 .. 9 : DigitChars[n + 1] = char]
  ELSE [nan |-> TRUE, value |-> 0]

\* a faulty callback: digit >= 0 for digit >= 1
CharToCellZero(char) ==
  LET digit == ParseInt(char)
  IN  IF ~digit.nan /\ digit.value >= 0 /\ digit.value <= 9
      THEN digit.value ELSE NULL

\* the callback of lines 268-271
CharToCell(char) ==
  LET digit == ParseInt(char)
  IN  IF ~digit.nan /\ digit.value >= 1 /\ digit.value <= 9
      THEN digit.value ELSE NULL

\* a faulty stringToBoard: only the strings shorter than BOARD_SIZE throw
stringToBoardMin(serialized) ==
  IF Len(serialized) < BOARD_SIZE
  THEN [threw |-> TRUE, board |-> << >>, converted |-> 0]
  ELSE [threw |-> FALSE,
        board |-> [index \in 0 .. (Len(serialized) - 1) |->
                     CharToCell(serialized[index + 1])],
        converted |-> Len(serialized)]

\* stringToBoard(serialized): threw is the Error of line 266; converted is
\* the number of characters the callback of map was run on
stringToBoard(serialized) ==
  IF Len(serialized) # BOARD_SIZE
  THEN [threw |-> TRUE, board |-> << >>, converted |-> 0]
  ELSE [threw |-> FALSE,
        board |-> [index \in 0 .. (Len(serialized) - 1) |->
                     CharToCell(serialized[index + 1])],
        converted |-> Len(serialized)]

\* a faulty cell-to-character step: String(cell ?? "")
CellToCharEmpty(cell) == IF cell = NULL THEN << >> ELSE NumberToString(cell)

\* a faulty cell-to-character step: String(cell ?? 0)
CellToCharZero(cell) == IF cell = NULL THEN <<"0">> ELSE NumberToString(cell)

\* cell === null ? "." : String(cell)
CellToChar(cell) == IF cell = NULL THEN <<".">> ELSE NumberToString(cell)

\* board.length of a board held as a function over 0 .. length-1
BoardLength(board) == Cardinality(DOMAIN board)

\* boardToString(board): threw is the Error of line 276
boardToString(board) ==
  IF BoardLength(board) # BOARD_SIZE
  THEN [threw |-> TRUE, string |-> << >>]
  ELSE [threw |-> FALSE,
        string |-> Join([i \in 1 .. BoardLength(board) |-> CellToChar(board[i - 1])])]

\* ------------------------------------------------------------ validator

\* a faulty iteration: without `if (value === null) continue`
ConflictsAtAll(board, index) ==
  UNION {{index, peer} :
           peer \in {p \in PEERS[index] : board[p] = board[index]}}

\* what the iteration of the loop of lines 283-292 for `index` adds
ConflictsAt(board, index) ==
  IF board[index] = NULL THEN {}
  ELSE UNION {{index, peer} :
                peer \in {p \in PEERS[index] : board[p] = board[index]}}

findConflicts(board) == UNION {ConflictsAt(board, index) : index \in Indices}

getPeers(index) == PEERS[index]

\* a faulty isBoardComplete: board.some for board.every
isBoardCompleteSome(board) ==
  /\ \E index \in DOMAIN board : board[index] # NULL
  /\ Cardinality(findConflicts(board)) = 0

isBoardComplete(board) ==
  /\ \A index \in DOMAIN board : board[index] # NULL
  /\ Cardinality(findConflicts(board)) = 0

\* a faulty validateMove: a filled cell accepts no value
validateMoveBlank(board, index, value) ==
  IF value < 1 \/ value > 9 \/ board[index] # NULL THEN FALSE
  ELSE isValidPlacement(board, index, value)

validateMove(board, index, value) ==
  IF value < 1 \/ value > 9 THEN FALSE
  ELSE isValidPlacement(board, index, value)

\* ------------------------------------------------------------- the state

VARIABLES
  DIGITS,        \* the module-level array of line 93
  pc,            \* "idle"; "fill", "carve", "solve" inside a call;
                 \* "done", "threw" after generateSudoku; "solved" after a
                 \* caller's own solveSudoku
  caller,        \* who runs solveSudoku: "carve" (hasUniqueSolution) or "client"
  difficulty,    \* generateSudoku's arguments
  seed,
  rng,           \* the `state` of the closure createSeededRandom returned
  board,         \* generateSolvedBoard's buffer, which fillBoard fills
  fillMode,      \* "call": fillBoard(board, rng, fillIndex) is being entered;
                 \* "ret": a fillBoard call has just returned fillRet
  fillIndex,
  fillRet,
  fillStack,     \* the fillBoard calls waiting for a recursive call, outermost
                 \* first: [index, order (the shuffled digits), k (the digit tried)]
  solved,        \* generateSolvedBoard's result
  puzzle,        \* buildPuzzleFromSolution's working copy
  positions,     \* its shuffled positions
  cursor,        \* how many of them its loop has taken
  backup,
  removed,
  result,        \* what generateSudoku returned
  input,         \* the board a caller passed to solveSudoku
  state,         \* solveSudoku's locals
  solutions,
  firstSolution,
  limit,
  searchMode,    \* "call": search() is being entered; "ret": it returned searchRet
  searchRet,
  searchStack,   \* the search() calls waiting for a recursive call:
                 \* [index, candidates, k (the candidate tried)]
  solveResult,   \* what the caller's solveSudoku returned
  golden,        \* history: a generateSudoku call that returned, and whether
                 \* a different call was made since
  codecStep,     \* a caller of the codec: "idle"; "stringIn", "decoded",
                 \* "reencoded"; "boardIn", "encoded", "redecoded"
  serialized,    \* the string passed to stringToBoard
  decoded,       \* what it returned
  reencoded,     \* what boardToString returned for decoded.board
  boardIn,       \* the board passed to boardToString
  encoded,       \* what it returned
  redecoded,     \* what stringToBoard returned for encoded.string
  lookups,       \* the last two getPeers calls: [index, peers]
  playStep,      \* a caller of the validators: "idle"; "boardIn"; "checked",
                 \* "validated", "committed", "completeChecked"; "inspected"
  play,          \* the board passed to findConflicts, validateMove or
                 \* isBoardComplete
  conflicts,     \* what findConflicts returned
  move,          \* validateMove's other arguments and what it returned:
                 \* [index, value, ok]
  complete,      \* what isBoardComplete returned
  drawn,         \* a caller of the generator: the calls made, the numerator
                 \* n of the last float returned, and the index
                 \* j = Math.floor(float * (i + 1)) made of it as shuffle does
  puzzleBoard,   \* the game hook: what its useMemo calls keep of the
  solutionBoard, \* options puzzle and solution
  givenMap,
  boardRef,      \* boardRef.current, which after the render
                 \* that follows a call is also its state `board`
  notesRef,      \* notesRef.current, likewise its state `notes`: a function
                 \* from the keys of the record to their arrays
  selectedIndex,
  mode,
  guardrailsEnabled,  \* the option the hook was given
  lastCall       \* history: the last action called, its argument, what it
                 \* returned or threw, and the onChange and onMove payloads
                 \* it emitted

fillVars == <<board, fillMode, fillIndex, fillRet, fillStack>>
carveVars == <<solved, puzzle, positions, cursor, backup, removed>>
searchVars == <<state, solutions, firstSolution, limit, searchMode, searchRet,
                searchStack>>
codecVars == <<codecStep, serialized, decoded, reencoded, boardIn, encoded,
               redecoded>>
playVars == <<playStep, play, conflicts, move, complete>>
memoVars == <<puzzleBoard, solutionBoard, givenMap>>
gameVars == <<memoVars, boardRef, notesRef, selectedIndex, mode,
              guardrailsEnabled, lastCall>>
engineVars == <<DIGITS, pc, caller, difficulty, seed, rng, fillVars, carveVars,
                result, input, searchVars, solveResult, golden>>

\* what the engine's steps leave alone
otherVars == <<codecVars, lookups, playVars, gameVars, drawn>>

vars == <<engineVars, codecVars, lookups, playVars, gameVars, drawn>>

NumSeeds == 1

\* the seeds the calls are made with, the first NumSeeds of this list
SeedList ==
  <<[kind |-> "number", n |-> 9],
    [kind |-> "number", n |-> 59],
    [kind |-> "string", codes |-> <<115>>]>>

Seeds == {SeedList[i] : i \in 1 .. NumSeeds}

NoResult == [puzzle |-> << >>, solution |-> << >>]

NoSolveResult == [solution |-> NoSolution, count |-> 0]

NoGolden ==
  [set |-> FALSE, difficulty |-> "medium",
   seed |-> [kind |-> "number", n |-> 0], result |-> NoResult,
   between |-> FALSE]

NoBoardResult == [threw |-> FALSE, board |-> << >>, converted |-> 0]

NoStringResult == [threw |-> FALSE, string |-> << >>]

CodecIdle ==
  /\ codecStep = "idle"
  /\ serialized = << >>
  /\ decoded = NoBoardResult
  /\ reencoded = NoStringResult
  /\ boardIn = EmptyBoard
  /\ encoded = NoStringResult
  /\ redecoded = NoBoardResult

NoMove == [index |-> 0, value |-> 0, ok |-> FALSE]

PlayIdle ==
  /\ playStep = "idle"
  /\ play = EmptyBoard
  /\ conflicts = {}
  /\ move = NoMove
  /\ complete = FALSE

NoDraw == [calls |-> 0, n |-> NumWord(0), i |-> 0, j |-> 0]

\* no caller draws from a generator
RngIdle == drawn = NoDraw

NoCall ==
  [op |-> "none", argument |-> NULL, returned |-> NULL, threw |-> FALSE,
   changes |-> << >>, moves |-> << >>]

\* no game hook is mounted
GameIdle ==
  /\ puzzleBoard = EmptyBoard
  /\ solutionBoard = EmptyBoard
  /\ givenMap = [index \in Indices |-> FALSE]
  /\ boardRef = EmptyBoard
  /\ notesRef = << >>
  /\ selectedIndex = NULL
  /\ mode = "value"
  /\ guardrailsEnabled = FALSE
  /\ lastCall = NoCall

EngineIdle ==
  /\ DIGITS = DIGITS_INIT
  /\ pc = "idle"
  /\ caller = "client"
  /\ difficulty = "medium"
  /\ seed = [kind |-> "number", n |-> 0]
  /\ rng = NumWord(0)
  /\ board = EmptyBoard
  /\ fillMode = "ret"
  /\ fillIndex = 0
  /\ fillRet = FALSE
  /\ fillStack = << >>
  /\ solved = EmptyBoard
  /\ puzzle = EmptyBoard
  /\ positions = << >>
  /\ cursor = 0
  /\ backup = NULL
  /\ removed = 0
  /\ result = NoResult
  /\ input = EmptyBoard
  /\ state = EmptyBoard
  /\ solutions = 0
  /\ firstSolution = NoSolution
  /\ limit = 0
  /\ searchMode = "ret"
  /\ searchRet = FALSE
  /\ searchStack = << >>
  /\ solveResult = NoSolveResult
  /\ golden = NoGolden

Init ==
  EngineIdle /\ CodecIdle /\ lookups = << >> /\ PlayIdle /\ GameIdle /\ RngIdle

\* no solveSudoku call has locals alive
ClearSolve ==
  /\ state' = EmptyBoard
  /\ solutions' = 0
  /\ firstSolution' = NoSolution
  /\ limit' = 0
  /\ searchMode' = "ret"
  /\ searchRet' = FALSE
  /\ searchStack' = << >>

\* no call is running
Quiescent == pc \in {"idle", "done", "threw", "solved"}

Top(stack) == stack[Len(stack)]
Pop(stack) == SubSeq(stack, 1, Len(stack) - 1)
SetTop(stack, frame) == [stack EXCEPT ![Len(stack)] = frame]

\* ------------------------------------------------------- generateSudoku

\* generateSudoku(d, s), lines 255-256 up to the call fillBoard(board, rng)
\* of generateSolvedBoard
CallGenerate(d, s) ==
  /\ Quiescent
  /\ pc' = "fill"
  /\ difficulty' = d
  /\ seed' = s
  /\ rng' = createSeededRandom(s)
  /\ board' = EmptyBoard
  /\ fillMode' = "call"
  /\ fillIndex' = 0
  /\ fillRet' = FALSE
  /\ fillStack' = << >>
  /\ solved' = EmptyBoard
  /\ puzzle' = EmptyBoard
  /\ positions' = << >>
  /\ cursor' = 0
  /\ backup' = NULL
  /\ removed' = 0
  /\ result' = NoResult
  /\ caller' = "carve"
  /\ input' = EmptyBoard
  /\ ClearSolve
  /\ solveResult' = NoSolveResult
  /\ golden' =
       IF golden.set /\ (d # golden.difficulty \/ s # golden.seed)
       THEN [golden EXCEPT !.between = TRUE]
       ELSE golden
  /\ UNCHANGED <<DIGITS, otherVars>>

\* a faulty loop of fillBoard: the digit is placed without isValidPlacement
NextValidAny(b, index, order, from) ==
  IF from <= Len(order) THEN from ELSE 0

\* a faulty loop of fillBoard: after a recursive call failed no further digit
\* is tried
NextValidOnce(b, index, order, from) ==
  LET ok == {k \in 1 .. Len(order) : isValidPlacement(b, index, order[k])}
  IN  IF from > 1 \/ ok = {} THEN 0 ELSE CHOOSE k \in ok : \A m \in ok : k <= m

\* The first k >= from whose digit order[k] fillBoard's loop would place on
\* `b` at `index` (line 165), 0 when the loop runs out.
NextValid(b, index, order, from) ==
  LET ok == {k \in from .. Len(order) : isValidPlacement(b, index, order[k])}
  IN  IF ok = {} THEN 0 ELSE CHOOSE k \in ok : \A m \in ok : k <= m

\* a faulty fillBoard: the recursive call is made on index
FillStay(index) == index

\* fillBoard(board, rng, index + 1): lines 162 and 167
FillAdvance(index) == index + 1

\* a faulty loop of fillBoard: board[index] = null is left out
FillUndoNothing(b, index) == b

\* board[index] = null (line 168)
FillUndo(b, index) == [b EXCEPT ![index] = NULL]

\* fillBoard(board, rng, fillIndex) is entered: lines 161-167 up to its
\* return or its recursive call.  A call that goes on to a recursive call is
\* a frame of fillStack; its field entry is history, the board as the call
\* found it.
FillCall ==
  /\ pc = "fill"
  /\ fillMode = "call"
  /\ IF fillIndex >= BOARD_SIZE
     THEN /\ fillMode' = "ret"
          /\ fillRet' = TRUE
          /\ UNCHANGED <<DIGITS, rng, board, fillIndex, fillStack>>
     ELSE IF board[fillIndex] # NULL
     THEN /\ fillStack' = Append(fillStack,
                                 [index |-> fillIndex, order |-> << >>, k |-> 0,
                                  entry |-> board])
          /\ fillIndex' = FillAdvance(fillIndex)
          /\ UNCHANGED <<DIGITS, rng, board, fillMode, fillRet>>
     ELSE \E sh \in {shuffle(DIGITS, rng)} :
          \E k \in {NextValid(board, fillIndex, sh.array, 1)} :
              /\ DIGITS' = sh.items
              /\ rng' = sh.state
              /\ IF k = 0
                 THEN /\ fillMode' = "ret"
                      /\ fillRet' = FALSE
                      /\ UNCHANGED <<board, fillIndex, fillStack>>
                 ELSE /\ board' = [board EXCEPT ![fillIndex] = sh.array[k]]
                      /\ fillStack' =
                           Append(fillStack,
                                  [index |-> fillIndex, order |-> sh.array, k |-> k,
                                   entry |-> board])
                      /\ fillIndex' = FillAdvance(fillIndex)
                      /\ UNCHANGED <<fillMode, fillRet>>
  /\ UNCHANGED <<pc, caller, difficulty, seed, carveVars, result, input,
                 searchVars, solveResult, golden, otherVars>>

\* a recursive fillBoard call returned fillRet to the call on top of the
\* stack: lines 162, 167-172
FillReturn ==
  /\ pc = "fill"
  /\ fillMode = "ret"
  /\ fillStack # << >>
  /\ \E top \in {Top(fillStack)} :
         IF top.order = << >> \/ fillRet
         THEN /\ fillStack' = Pop(fillStack)
              /\ UNCHANGED <<board, fillMode, fillIndex, fillRet>>
         ELSE \E cleared \in {FillUndo(board, top.index)} :
              \E k \in {NextValid(cleared, top.index, top.order, top.k + 1)} :
                  IF k = 0
                  THEN /\ board' = cleared
                       /\ fillStack' = Pop(fillStack)
                       /\ UNCHANGED <<fillMode, fillIndex, fillRet>>
                  ELSE /\ board' = [cleared EXCEPT ![top.index] = top.order[k]]
                       /\ fillStack' = SetTop(fillStack, [top EXCEPT !.k = k])
                       /\ fillMode' = "call"
                       /\ fillIndex' = FillAdvance(top.index)
                       /\ UNCHANGED fillRet
  /\ UNCHANGED <<DIGITS, pc, caller, difficulty, seed, rng, carveVars, result,
                 input, searchVars, solveResult, golden, otherVars>>

\* fillBoard(board, rng) returned to generateSolvedBoard: lines 177-180, then
\* generateSudoku's lines 257-258 and buildPuzzleFromSolution's 236-238
FillDone ==
  /\ pc = "fill"
  /\ fillMode = "ret"
  /\ fillStack = << >>
  /\ IF ~fillRet
     THEN /\ pc' = "threw"
          /\ UNCHANGED <<rng, carveVars>>
     ELSE \E number \in {[index \in Indices |-> OrZero(board[index])]} :
          \E sh \in {shuffle([i \in 1 .. BOARD_SIZE |-> i - 1], rng)} :
              /\ pc' = "carve"
              /\ solved' = number
              /\ puzzle' = number
              /\ positions' = sh.array
              /\ rng' = sh.state
              /\ cursor' = 0
              /\ removed' = 0
              /\ UNCHANGED backup
  /\ UNCHANGED <<DIGITS, caller, difficulty, seed, fillVars, result, input,
                 searchVars, solveResult, golden, otherVars>>

\* solveSudoku(b, l) is entered: lines 202-204 and the call search() of 226
EnterSolve(b, l) ==
  /\ state' = b
  /\ solutions' = 0
  /\ firstSolution' = NoSolution
  /\ limit' = l
  /\ searchMode' = "call"
  /\ searchRet' = FALSE
  /\ searchStack' = << >>

\* a faulty buildPuzzleFromSolution: puzzle = solution for the copy
\* solution.map((value) => value), so that what the loop writes to puzzle is
\* written to generateSudoku's array solved
SolvedAliased(solution, p) == p

\* generateSudoku's array solved after the loop wrote to `p`, the copy of it
\* made at line 236: the array is as it was
SolvedAfter(solution, p) == solution

\* puzzle[position] = null (line 243)
CarveBlank(p, position) == [p EXCEPT ![position] = NULL]

\* a faulty restore: the digit is written back one cell further
CarveRestoreNext(p, position, value) ==
  [p EXCEPT ![(position + 1) % BOARD_SIZE] = value]

\* puzzle[position] = backup (line 245)
CarveRestore(p, position, value) == [p EXCEPT ![position] = value]

\* a faulty hasUniqueSolution: count >= 1 for count === 1
hasUniqueSolutionAny(solveReturn) == solveReturn.count >= 1

\* hasUniqueSolution's test of what solveSudoku(board, 2) returned
hasUniqueSolution(solveReturn) == solveReturn.count = 1

\* a faulty loop: every second position is passed over
CarveSkip(at) == at + 2

\* for (const position of positions): the loop goes to the next position
CarveAdvance(at) == at + 1

\* a faulty test of the loop: it goes on until the target is passed
TargetPassed(count, empties) == count > empties

\* if (removed >= empties) break (line 241)
TargetReached(count, empties) == count >= empties

\* an iteration of buildPuzzleFromSolution's loop, lines 240-244, up to the
\* call solveSudoku(puzzle, 2) of hasUniqueSolution
CarveTry ==
  /\ pc = "carve"
  /\ cursor < Len(positions)
  /\ ~TargetReached(removed, difficultyToEmpties[difficulty])
  /\ LET position == positions[cursor + 1]
     IN  /\ backup' = puzzle[position]
         /\ puzzle' = CarveBlank(puzzle, position)
  /\ solved' = SolvedAfter(solved, puzzle')
  /\ EnterSolve(puzzle', 2)
  /\ pc' = "solve"
  /\ caller' = "carve"
  /\ UNCHANGED <<DIGITS, difficulty, seed, rng, fillVars, positions, cursor,
                 removed, result, input, solveResult, golden, otherVars>>

\* a faulty solveSudoku: state = board for state = board.slice(), so that
\* what search() writes to state is written to the caller's board
CallerBoardAliased(b, s) == s

\* The caller's board after search() left `s` in state: state is a copy of
\* the board (board.slice(), line 202), so the board is as it was.
CallerBoardAfter(b, s) == b

\* a faulty search(): firstSolution is assigned at every solution
RecordLast(first, s) == [i \in Indices |-> OrZero(s[i])]

\* if (!firstSolution) firstSolution = state.map((cell) => cell ?? 0)
RecordFirst(first, s) ==
  IF first = NoSolution THEN [i \in Indices |-> OrZero(s[i])] ELSE first

\* a faulty search(): the candidate is not written, so that the recursive
\* call finds the cell it was called for still blank
SearchPlaceNothing(s, index, candidate) == s

\* state[index] = candidate: line 218
SearchPlace(s, index, candidate) == [s EXCEPT ![index] = candidate]

\* search() is entered: lines 207-219 up to its return or its recursive call
SearchCall ==
  /\ pc = "solve"
  /\ searchMode = "call"
  /\ \E index \in {findBestCell(DIGITS, state)} :
         IF index = -1
         THEN /\ solutions' = solutions + 1
              /\ firstSolution' = RecordFirst(firstSolution, state)
              /\ searchRet' = (solutions + 1 >= limit)
              /\ searchMode' = "ret"
              /\ UNCHANGED <<state, searchStack>>
         ELSE \E candidates \in {Candidates(DIGITS, state, index)} :
         IF Len(candidates) = 0
         THEN /\ state' = [state EXCEPT ![index] = NULL]
              /\ searchRet' = FALSE
              /\ searchMode' = "ret"
              /\ UNCHANGED <<solutions, firstSolution, searchStack>>
         ELSE /\ state' = SearchPlace(state, index, candidates[1])
              /\ searchStack' =
                   Append(searchStack,
                          [index |-> index, candidates |-> candidates, k |-> 1])
              /\ UNCHANGED <<solutions, firstSolution, searchRet, searchMode>>
  /\ input' = CallerBoardAfter(input, state')
  /\ UNCHANGED <<DIGITS, pc, caller, difficulty, seed, rng, fillVars, carveVars,
                 result, limit, solveResult, golden, otherVars>>

\* a recursive search() returned searchRet to the call on top of the stack:
\* lines 219-223
SearchReturn ==
  /\ pc = "solve"
  /\ searchMode = "ret"
  /\ searchStack # << >>
  /\ \E top \in {Top(searchStack)} :
         IF searchRet
         THEN /\ searchStack' = Pop(searchStack)
              /\ UNCHANGED <<state, searchMode, searchRet>>
         ELSE IF top.k < Len(top.candidates)
         THEN /\ state' = SearchPlace(state, top.index, top.candidates[top.k + 1])
              /\ searchStack' = SetTop(searchStack, [top EXCEPT !.k = top.k + 1])
              /\ searchMode' = "call"
              /\ UNCHANGED searchRet
         ELSE /\ state' = [state EXCEPT ![top.index] = NULL]
              /\ searchStack' = Pop(searchStack)
              /\ UNCHANGED <<searchMode, searchRet>>
  /\ input' = CallerBoardAfter(input, state')
  /\ UNCHANGED <<DIGITS, pc, caller, difficulty, seed, rng, fillVars, carveVars,
                 result, solutions, firstSolution, limit, solveResult,
                 golden, otherVars>>

\* solveSudoku returned to hasUniqueSolution: lines 227, 231-232, then the
\* rest of the iteration, lines 244-248
CarveResume ==
  /\ pc = "solve"
  /\ caller = "carve"
  /\ searchMode = "ret"
  /\ searchStack = << >>
  /\ LET position == positions[cursor + 1]
     IN  IF ~hasUniqueSolution([solution |-> firstSolution, count |-> solutions])
         THEN /\ puzzle' = CarveRestore(puzzle, position, backup)
              /\ UNCHANGED removed
         ELSE /\ removed' = removed + 1
              /\ UNCHANGED puzzle
  /\ solved' = SolvedAfter(solved, puzzle')
  /\ cursor' = CarveAdvance(cursor)
  /\ pc' = "carve"
  /\ UNCHANGED <<DIGITS, caller, difficulty, seed, rng, fillVars, positions,
                 backup, result, input, searchVars, solveResult, golden,
                 otherVars>>

\* the loop of buildPuzzleFromSolution ends (its break, or the positions are
\* exhausted): line 251, then generateSudoku's lines 259-261.  With `keep`,
\* and no call kept yet, the history variable golden keeps this call.
Return(keep) ==
  /\ pc = "carve"
  /\ \/ cursor >= Len(positions)
     \/ TargetReached(removed, difficultyToEmpties[difficulty])
  /\ pc' = "done"
  /\ result' =
       [puzzle |-> Join([i \in 1 .. BOARD_SIZE |-> CellToChar(puzzle[i - 1])]),
        solution |-> Join([i \in 1 .. BOARD_SIZE |-> JoinItem(solved[i - 1])])]
  /\ golden' =
       IF keep /\ ~golden.set
       THEN [set |-> TRUE, difficulty |-> difficulty, seed |-> seed,
             result |-> result', between |-> FALSE]
       ELSE golden
  /\ UNCHANGED <<DIGITS, caller, difficulty, seed, rng, fillVars, carveVars,
                 input, searchVars, solveResult, otherVars>>

\* ----------------------------------------------------------- solveSudoku

\* a caller's solveSudoku(b, l)
CallSolve(b, l) ==
  /\ Quiescent
  /\ input' = b
  /\ EnterSolve(b, l)
  /\ pc' = "solve"
  /\ caller' = "client"
  /\ solveResult' = NoSolveResult
  /\ golden' = IF golden.set THEN [golden EXCEPT !.between = TRUE] ELSE golden
  /\ UNCHANGED <<DIGITS, difficulty, seed, rng, fillVars, carveVars, result,
                 otherVars>>

\* the caller solves the puzzle generateSudoku just returned, as the
\* uniqueness check does: solveSudoku(stringToBoard(puzzle), 2)
SolvePuzzle ==
  /\ pc = "done"
  /\ CallSolve(stringToBoard(result.puzzle).board, 2)

\* solveSudoku returns to the caller: line 227
SolveReturn ==
  /\ pc = "solve"
  /\ caller = "client"
  /\ searchMode = "ret"
  /\ searchStack = << >>
  /\ solveResult' = [solution |-> firstSolution, count |-> solutions]
  /\ pc' = "solved"
  /\ UNCHANGED <<DIGITS, caller, difficulty, seed, rng, fillVars, carveVars,
                 result, input, searchVars, golden, otherVars>>

\* the steps inside a call
Engine ==
  \/ FillCall
  \/ FillReturn
  \/ FillDone
  \/ CarveTry
  \/ SearchCall
  \/ SearchReturn
  \/ CarveResume
  \/ SolveReturn

AllCalls == Difficulties \X Seeds

Next ==
  \/ \E c \in AllCalls : CallGenerate(c[1], c[2])
  \/ Engine
  \/ Return(FALSE)
  \/ SolvePuzzle

Spec == Init /\ [][Next]_vars

\* ---------------------------------------------- a call made a second time

\* the calls made when calls are repeated: every difficulty with the first
\* seed of the list, and one call with its string seed
DetCalls ==
  (Difficulties \X {SeedList[1]}) \cup {<<"easy", SeedList[3]>>}

\* any call that returns may be the one the later calls are compared with
DetNext ==
  \/ \E c \in DetCalls : CallGenerate(c[1], c[2])
  \/ Engine
  \/ \E keep \in BOOLEAN : Return(keep)
  \/ SolvePuzzle

SpecDet == Init /\ [][DetNext]_vars

\* ------------------------------------ the returned puzzle less one given

\* the caller blanks one given of the puzzle buildPuzzleFromSolution
\* returned and counts the solutions as hasUniqueSolution does:
\* solveSudoku(board, 2)
SolveWithout(index) ==
  /\ pc = "done"
  /\ puzzle[index] # NULL
  /\ CallSolve([puzzle EXCEPT ![index] = NULL], 2)

\* the calls whose puzzle is examined: expert with two seeds, which fall
\* short of the target, and hard, which does not
ShortCalls ==
  {<<"expert", SeedList[1]>>, <<"expert", SeedList[3]>>, <<"hard", SeedList[1]>>}

MinimalNext ==
  \/ \E c \in ShortCalls : CallGenerate(c[1], c[2])
  \/ Engine
  \/ Return(FALSE)
  \/ \E index \in Indices : SolveWithout(index)

SpecMinimal == Init /\ [][MinimalNext]_vars

\* ------------------------------------------- callers of createSeededRandom

MaxCalls == 8

\* the seeds the generators are created with: numbers up to 2^31 - 1, the
\* empty string, "s", and a string long enough for the hash to wrap
RngSeeds ==
  {[kind |-> "number", n |-> 0],
   [kind |-> "number", n |-> 9],
   [kind |-> "number", n |-> 65536],
   [kind |-> "number", n |-> 2147483647],
   [kind |-> "string", codes |-> << >>],
   [kind |-> "string", codes |-> <<115>>],
   [kind |-> "string", codes |-> <<122, 122, 122, 122, 122, 122, 122, 122>>]}

\* the values of i in shuffle's loop the index is computed for
LoopIndices == {1, 8, 80}

\* rng = createSeededRandom(seed)
RngInit ==
  /\ DIGITS = DIGITS_INIT
  /\ pc = "idle"
  /\ caller = "client"
  /\ difficulty = "medium"
  /\ seed \in RngSeeds
  /\ rng = createSeededRandom(seed)
  /\ board = EmptyBoard
  /\ fillMode = "ret"
  /\ fillIndex = 0
  /\ fillRet = FALSE
  /\ fillStack = << >>
  /\ solved = EmptyBoard
  /\ puzzle = EmptyBoard
  /\ positions = << >>
  /\ cursor = 0
  /\ backup = NULL
  /\ removed = 0
  /\ result = NoResult
  /\ input = EmptyBoard
  /\ state = EmptyBoard
  /\ solutions = 0
  /\ firstSolution = NoSolution
  /\ limit = 0
  /\ searchMode = "ret"
  /\ searchRet = FALSE
  /\ searchStack = << >>
  /\ solveResult = NoSolveResult
  /\ golden = NoGolden
  /\ CodecIdle
  /\ lookups = << >>
  /\ PlayIdle
  /\ GameIdle
  /\ RngIdle

\* const j = Math.floor(rng() * (i + 1)), line 150
Draw(i) ==
  /\ drawn.calls < MaxCalls
  /\ \E r \in {RngNext(rng)} :
        /\ rng' = r.state
        /\ drawn' = [calls |-> drawn.calls + 1, n |-> r.n, i |-> i,
                     j |-> FloorMul(r.n, i + 1)]
  /\ UNCHANGED <<DIGITS, pc, caller, difficulty, seed, fillVars, carveVars,
                 result, input, searchVars, solveResult, golden, codecVars,
                 lookups, playVars, gameVars>>

RngCalls == \E i \in LoopIndices : Draw(i)

SpecRng == RngInit /\ [][RngCalls]_vars

\* ------------------------------------------------- callers of solveSudoku

\* a solved grid: the solution generateSudoku returns for the seed 9
SolvedDigits ==
  <<7, 6, 8, 4, 3, 5, 2, 9, 1,
    2, 1, 9, 6, 7, 8, 5, 3, 4,
    5, 4, 3, 1, 2, 9, 6, 8, 7,
    4, 3, 1, 2, 5, 6, 9, 7, 8,
    8, 7, 6, 9, 1, 4, 3, 2, 5,
    9, 2, 5, 7, 8, 3, 1, 4, 6,
    6, 8, 7, 3, 9, 1, 4, 5, 2,
    3, 5, 4, 8, 6, 2, 7, 1, 9,
    1, 9, 2, 5, 4, 7, 8, 6, 3>>

SolvedGrid == [index \in Indices |-> SolvedDigits[index + 1]]

MaxBlanks == 2

MaxLimit == 5

\* the pairs of digits blanked everywhere in a board passed in
BlankPairs == {{}, {7, 8}, {1, 9}}

\* the cells blanked one by one
PickCells == {0, 1, 24, 40, 78, 79}

\* SolvedGrid without the digits of a pair of BlankPairs and with at most n
\* cells of PickCells blanked
RECURSIVE BlankedBoards(_)
BlankedBoards(n) ==
  IF n = 0
  THEN {[index \in Indices |->
           IF SolvedGrid[index] \in pair THEN NULL ELSE SolvedGrid[index]] :
          pair \in BlankPairs}
  ELSE LET fewer == BlankedBoards(n - 1)
       IN  fewer \cup {[b EXCEPT ![index] = NULL] :
                         b \in fewer, index \in PickCells}

\* the boards passed to solveSudoku: a board of BlankedBoards, as it is or
\* with 6, 7 or 8 written at cell 0 or 25 (which may conflict with a peer)
SolveInputs ==
  BlankedBoards(MaxBlanks)
    \cup {[b EXCEPT ![index] = value] :
            b \in BlankedBoards(MaxBlanks), index \in {0, 25},
            value \in {6, 7, 8}}

\* a caller holds a board and a limit
SolveStart(boards, limits) ==
  /\ DIGITS = DIGITS_INIT
  /\ pc = "idle"
  /\ caller = "client"
  /\ difficulty = "medium"
  /\ seed = [kind |-> "number", n |-> 0]
  /\ rng = NumWord(0)
  /\ board = EmptyBoard
  /\ fillMode = "ret"
  /\ fillIndex = 0
  /\ fillRet = FALSE
  /\ fillStack = << >>
  /\ solved = EmptyBoard
  /\ puzzle = EmptyBoard
  /\ positions = << >>
  /\ cursor = 0
  /\ backup = NULL
  /\ removed = 0
  /\ result = NoResult
  /\ input \in boards
  /\ state = EmptyBoard
  /\ solutions = 0
  /\ firstSolution = NoSolution
  /\ limit \in limits
  /\ searchMode = "ret"
  /\ searchRet = FALSE
  /\ searchStack = << >>
  /\ solveResult = NoSolveResult
  /\ golden = NoGolden
  /\ CodecIdle
  /\ lookups = << >>
  /\ GameIdle
  /\ RngIdle
  /\ PlayIdle

SolveInit == SolveStart(SolveInputs, 0 .. MaxLimit)

\* solveSudoku(input, limit)
SolveInput ==
  /\ pc = "idle"
  /\ CallSolve(input, limit)

\* the caller passes the board solveSudoku was given to findConflicts,
\* isBoardComplete and validateMove(input, index, value)
Inspect(index, value) ==
  /\ pc = "solved"
  /\ playStep = "idle"
  /\ conflicts' = findConflicts(input)
  /\ complete' = isBoardComplete(input)
  /\ move' = [index |-> index, value |-> value,
              ok |-> validateMove(input, index, value)]
  /\ playStep' = "inspected"
  /\ UNCHANGED <<engineVars, codecVars, lookups, gameVars, drawn, play>>

SolveNext ==
  \/ SolveInput
  \/ SearchCall
  \/ SearchReturn
  \/ SolveReturn
  \/ \E index \in {0, 25}, value \in {7, 8} : Inspect(index, value)

SpecSolve == SolveInit /\ [][SolveNext]_vars

\* the boards and limits of the calls followed to their end: a board of
\* BlankedBoards(0), as it is or with 6 or 7 written at cell 0, and a limit
\* that is never reached, one that is, or none
FairBoards ==
  BlankedBoards(0)
    \cup {[b EXCEPT ![0] = value] : b \in BlankedBoards(0), value \in {6, 7}}

FairLimits == {0, 2, Infinity}

SolveFairInit == SolveStart(FairBoards, FairLimits)

\* the call runs on: solveSudoku is sequential code, each of its steps is
\* taken when it is the next one
SpecSolveFair ==
  /\ SolveFairInit
  /\ [][SolveNext]_vars
  /\ WF_vars(SolveInput)
  /\ WF_vars(SearchCall)
  /\ WF_vars(SearchReturn)
  /\ WF_vars(SolveReturn)

\* -------------------------------------------------------- fillBoard alone

\* the boards passed to fillBoard: the empty board generateSolvedBoard
\* passes, a board of BlankedBoards(1), and a board of BlankedBoards(0) with
\* 6 or 7 written at cell 0 or 3 (which may conflict with a peer, or leave
\* a blank cell of the row without a digit)
FillBoards ==
  {EmptyBoard}
    \cup BlankedBoards(1)
    \cup {[b EXCEPT ![index] = value] :
            b \in BlankedBoards(0), index \in {0, 3}, value \in {6, 7}}

\* the index passed to fillBoard: the default 0, a cell in the middle, and
\* BOARD_SIZE
FillIndices == {0, 40, BOARD_SIZE}

\* the seeds of the random streams passed to fillBoard
FillSeeds == {SeedList[1], SeedList[2]}

\* a caller holds a board, a random stream and an index
FillStart(boards, indices, seeds) ==
  /\ DIGITS = DIGITS_INIT
  /\ pc = "idle"
  /\ caller = "client"
  /\ difficulty = "medium"
  /\ seed \in seeds
  /\ rng = createSeededRandom(seed)
  /\ board \in boards
  /\ fillMode = "ret"
  /\ fillIndex \in indices
  /\ fillRet = FALSE
  /\ fillStack = << >>
  /\ solved = EmptyBoard
  /\ puzzle = EmptyBoard
  /\ positions = << >>
  /\ cursor = 0
  /\ backup = NULL
  /\ removed = 0
  /\ result = NoResult
  /\ input = board
  /\ state = EmptyBoard
  /\ solutions = 0
  /\ firstSolution = NoSolution
  /\ limit = 0
  /\ searchMode = "ret"
  /\ searchRet = FALSE
  /\ searchStack = << >>
  /\ solveResult = NoSolveResult
  /\ golden = NoGolden
  /\ CodecIdle
  /\ lookups = << >>
  /\ PlayIdle
  /\ GameIdle
  /\ RngIdle

FillInit == FillStart(FillBoards, FillIndices, FillSeeds)

\* fillBoard(board, rng, fillIndex); input keeps the board as it was passed
FillInput ==
  /\ pc = "idle"
  /\ pc' = "fill"
  /\ fillMode' = "call"
  /\ UNCHANGED <<DIGITS, caller, difficulty, seed, rng, board, fillIndex,
                 fillRet, fillStack, carveVars, result, input, searchVars,
                 solveResult, golden, otherVars>>

\* fillBoard returned fillRet to the caller
FillOutput ==
  /\ pc = "fill"
  /\ fillMode = "ret"
  /\ fillStack = << >>
  /\ pc' = "filled"
  /\ UNCHANGED <<DIGITS, caller, difficulty, seed, rng, fillVars, carveVars,
                 result, input, searchVars, solveResult, golden, otherVars>>

FillNext ==
  \/ FillInput
  \/ FillCall
  \/ FillReturn
  \/ FillOutput

SpecFill == FillInit /\ [][FillNext]_vars

\* the calls followed to their end: those of FillInit on the empty board, on
\* a board of BlankedBoards(0) and on a board with 6 or 7 written over.
\* The call runs on: fillBoard is sequential code, each of its steps is taken
\* when it is the next one
FillFairInit ==
  FillStart((FillBoards \ BlankedBoards(1)) \cup BlankedBoards(0),
            FillIndices, FillSeeds)

SpecFillFair ==
  /\ FillFairInit
  /\ [][FillNext]_vars
  /\ WF_vars(FillInput)
  /\ WF_vars(FillCall)
  /\ WF_vars(FillReturn)
  /\ WF_vars(FillOutput)

\* ---------------------------------------------------- callers of the codec

MaxDelta == 1

\* the lengths of the strings and boards passed in: 0, and 81 give or take
\* MaxDelta
Lengths == {0} \cup ((BOARD_SIZE - MaxDelta) .. (BOARD_SIZE + MaxDelta))

Chars == {".", "0", "1", "2", "3", "4", "5", "6", "7", "8", "9", "a", " "}

FillChars == {".", "5", "a"}

\* the strings passed to stringToBoard: one character repeated, with any
\* character at one place
StringInputs ==
  {[k \in 1 .. len |-> IF k = p THEN c ELSE f] :
     <<len, p>> \in {<<n, q>> \in Lengths \X (1 .. (BOARD_SIZE + MaxDelta)) :
                       q <= n \/ (n = 0 /\ q = 1)},
     f \in FillChars, c \in Chars}

\* the values a cell of type number | null is given
CellInputs == {NULL} \cup (0 .. 10)

\* the boards passed to boardToString: one cell value repeated, with any
\* value at one place
BoardInputs ==
  {[k \in 0 .. (len - 1) |-> IF k = p THEN v ELSE f] :
     <<len, p>> \in {<<n, q>> \in Lengths \X (0 .. (BOARD_SIZE + MaxDelta - 1)) :
                       q < n \/ (n = 0 /\ q = 0)},
     f \in {NULL, 5}, v \in CellInputs}

CodecInit ==
  /\ EngineIdle
  /\ lookups = << >>
  /\ GameIdle
  /\ RngIdle
  /\ PlayIdle
  /\ decoded = NoBoardResult
  /\ reencoded = NoStringResult
  /\ encoded = NoStringResult
  /\ redecoded = NoBoardResult
  /\ \/ /\ codecStep = "stringIn"
        /\ serialized \in StringInputs
        /\ boardIn = EmptyBoard
     \/ /\ codecStep = "boardIn"
        /\ serialized = << >>
        /\ boardIn \in BoardInputs

\* stringToBoard(serialized)
Decode ==
  /\ codecStep = "stringIn"
  /\ decoded' = stringToBoard(serialized)
  /\ codecStep' = "decoded"
  /\ UNCHANGED <<engineVars, serialized, reencoded, boardIn, encoded, redecoded,
                 lookups, playVars, gameVars, drawn>>

\* boardToString of the board stringToBoard returned
Reencode ==
  /\ codecStep = "decoded"
  /\ ~decoded.threw
  /\ reencoded' = boardToString(decoded.board)
  /\ codecStep' = "reencoded"
  /\ UNCHANGED <<engineVars, serialized, decoded, boardIn, encoded, redecoded,
                 lookups, playVars, gameVars, drawn>>

\* boardToString(boardIn)
Encode ==
  /\ codecStep = "boardIn"
  /\ encoded' = boardToString(boardIn)
  /\ codecStep' = "encoded"
  /\ UNCHANGED <<engineVars, serialized, decoded, reencoded, boardIn, redecoded,
                 lookups, playVars, gameVars, drawn>>

\* stringToBoard of the string boardToString returned
Redecode ==
  /\ codecStep = "encoded"
  /\ ~encoded.threw
  /\ redecoded' = stringToBoard(encoded.string)
  /\ codecStep' = "redecoded"
  /\ UNCHANGED <<engineVars, serialized, decoded, reencoded, boardIn, encoded,
                 lookups, playVars, gameVars, drawn>>

CodecNext ==
  \/ Decode
  \/ Reencode
  \/ Encode
  \/ Redecode

SpecCodec == CodecInit /\ [][CodecNext]_vars

\* ------------------------------------------------------ callers of getPeers

\* getPeers(index) is called; lookups keeps the last two calls
Lookup(index) ==
  /\ lookups' =
       LET call == [index |-> index, peers |-> getPeers(index)]
       IN  IF Len(lookups) < 2 THEN Append(lookups, call)
           ELSE <<lookups[2], call>>
  /\ UNCHANGED <<engineVars, codecVars, playVars, gameVars, drawn>>

PeersNext == \E index \in Indices : Lookup(index)

SpecPeers == Init /\ [][PeersNext]_vars

\* ------------------------------------------------- callers of findConflicts

MaxFilled == 3

PlayDigits == {5, 9}

\* the cells the boards passed in have filled: the box of cell 0, two more
\* cells of its row, two more of its column, the centre and the last cell
PlayCells == {0, 1, 2, 9, 10, 11, 18, 19, 20, 3, 8, 27, 72, 40, 80}

\* the boards with at most n cells of PlayCells filled with PlayDigits
RECURSIVE PlayBoards(_)
PlayBoards(n) ==
  IF n = 0 THEN {EmptyBoard}
  ELSE LET fewer == PlayBoards(n - 1)
       IN  fewer \cup {[b EXCEPT ![index] = value] :
                         b \in fewer, index \in PlayCells, value \in PlayDigits}

BoardInit ==
  /\ EngineIdle
  /\ CodecIdle
  /\ lookups = << >>
  /\ GameIdle
  /\ RngIdle
  /\ playStep = "boardIn"
  /\ play \in PlayBoards(MaxFilled)
  /\ conflicts = {}
  /\ move = NoMove
  /\ complete = FALSE

\* findConflicts(play)
Check ==
  /\ playStep = "boardIn"
  /\ conflicts' = findConflicts(play)
  /\ playStep' = "checked"
  /\ UNCHANGED <<engineVars, codecVars, lookups, gameVars, drawn, play, move,
                 complete>>

BoardNext == Check

SpecBoard == BoardInit /\ [][BoardNext]_vars

\* ------------------------------------------------- callers of validateMove

\* the cells the boards passed in have filled: cell 0, a cell of its row
\* only, of its column only, of its box only, and a cell that is no peer
MoveCells == {0, 1, 9, 10, 40}

\* the boards with at most n cells of MoveCells filled with PlayDigits
RECURSIVE MoveBoards(_)
MoveBoards(n) ==
  IF n = 0 THEN {EmptyBoard}
  ELSE LET fewer == MoveBoards(n - 1)
       IN  fewer \cup {[b EXCEPT ![index] = value] :
                         b \in fewer, index \in MoveCells, value \in PlayDigits}

MoveIndices == {0, 40}

MoveValues == {-1, 0, 1, 5, 9, 10, 11}

MoveInit ==
  /\ EngineIdle
  /\ CodecIdle
  /\ lookups = << >>
  /\ GameIdle
  /\ RngIdle
  /\ playStep = "boardIn"
  /\ play \in MoveBoards(MaxFilled)
  /\ conflicts = {}
  /\ move \in [index : MoveIndices, value : MoveValues, ok : {FALSE}]
  /\ complete = FALSE

\* validateMove(play, move.index, move.value)
Validate ==
  /\ playStep = "boardIn"
  /\ move' = [move EXCEPT !.ok = validateMove(play, move.index, move.value)]
  /\ playStep' = "validated"
  /\ UNCHANGED <<engineVars, codecVars, lookups, gameVars, drawn, play, conflicts,
                 complete>>

\* the caller writes the value, a digit 1..9, to a copy of the board and
\* passes the copy to findConflicts
CheckCommitted ==
  /\ playStep = "validated"
  /\ move.value \in 1 .. 9
  /\ conflicts' = findConflicts([play EXCEPT ![move.index] = move.value])
  /\ playStep' = "committed"
  /\ UNCHANGED <<engineVars, codecVars, lookups, gameVars, drawn, play, move,
                 complete>>

MoveNext == Validate \/ CheckCommitted

SpecMove == MoveInit /\ [][MoveNext]_vars

\* ---------------------------------------------- callers of isBoardComplete

MaxChanged == 4

\* the cells changed: 25, 26, 34, 35 hold 8, 7, 7, 8 in SolvedGrid, so that
\* exchanging the 7s and 8s gives another solved grid; and cell 0
ChangedCells == {0, 25, 26, 34, 35}

ChangedValues == {NULL, 7, 8}

\* SolvedGrid with at most n cells of ChangedCells set to ChangedValues
RECURSIVE ChangedBoards(_)
ChangedBoards(n) ==
  IF n = 0 THEN {SolvedGrid}
  ELSE LET fewer == ChangedBoards(n - 1)
       IN  fewer \cup {[b EXCEPT ![index] = value] :
                         b \in fewer, index \in ChangedCells,
                         value \in ChangedValues}

CompleteInit ==
  /\ EngineIdle
  /\ CodecIdle
  /\ lookups = << >>
  /\ GameIdle
  /\ RngIdle
  /\ playStep = "boardIn"
  /\ play \in ChangedBoards(MaxChanged)
  /\ conflicts = {}
  /\ move = NoMove
  /\ complete = FALSE

\* isBoardComplete(play)
CheckComplete ==
  /\ playStep = "boardIn"
  /\ complete' = isBoardComplete(play)
  /\ playStep' = "completeChecked"
  /\ UNCHANGED <<engineVars, codecVars, lookups, gameVars, drawn, play, conflicts,
                 move>>

CompleteNext == CheckComplete

SpecComplete == CompleteInit /\ [][CompleteNext]_vars

\* ------------------------------------------------------------ the game hook

\* the cells the puzzle given to the hook has blank
GameBlanks == {0, 1}

\* the options puzzle and solution of useSudokuGame: SolvedGrid, and
\* SolvedGrid with the cells of GameBlanks blank
GamePuzzle ==
  boardToString([index \in Indices |->
                   IF index \in GameBlanks THEN NULL
                   ELSE SolvedGrid[index]]).string

GameSolution == boardToString(SolvedGrid).string

\* a faulty mergeBoards: the candidate's digit is taken in every cell where
\* it has one
mergeBoardsCandidate(givens, candidate) ==
  [index \in DOMAIN givens |->
     LET candidateValue == candidate[index]
     IN  IF /\ candidateValue # NULL
            /\ candidateValue # 0
            /\ candidateValue >= 1
            /\ candidateValue <= 9
         THEN candidateValue ELSE givens[index]]

\* mergeBoards(puzzleBoard, candidate) with a candidate; givens is its
\* parameter puzzleBoard
mergeBoards(givens, candidate) ==
  [index \in DOMAIN givens |->
     IF givens[index] # NULL THEN givens[index]
     ELSE LET candidateValue == candidate[index]
          IN  IF /\ candidateValue # NULL
                 /\ candidateValue # 0
                 /\ candidateValue >= 1
                 /\ candidateValue <= 9
              THEN candidateValue ELSE NULL]

\* Array.from(new Set(values)).sort((a, b) => a - b), of a set of numbers
SortSet(values) ==
  CHOOSE sorted \in [1 .. Cardinality(values) -> values] :
    \A i, j \in 1 .. Cardinality(values) : i < j => sorted[i] < sorted[j]

\* the values of an array of notes that pass the filter of line 50
NoteValues(values) == {values[k] : k \in DOMAIN values} \cap (1 .. 9)

normalizeNotes(notes) ==
  LET kept == {index \in DOMAIN notes :
                 /\ index >= 0
                 /\ index < BOARD_SIZE
                 /\ NoteValues(notes[index]) # {}}
  IN  [index \in kept |-> SortSet(NoteValues(notes[index]))]

serializeNotes(notes) ==
  [key \in DOMAIN notes |->
     SortSet({notes[key][k] : k \in DOMAIN notes[key]})]

\* delete nextNotes[index]
DeleteNote(notes, index) == [key \in DOMAIN notes \ {index} |-> notes[key]]

\* the payload emitChange passes to onChange (without updatedAt, the time
\* of the call)
emitChange(nextBoard, nextNotes) ==
  [board |-> boardToString(nextBoard).string,
   notes |-> serializeNotes(nextNotes)]

\* applyState(nextBoard, nextNotes): the refs and, by the render that
\* follows, the states board and notes
applyState(nextBoard, nextNotes) ==
  /\ boardRef' = nextBoard
  /\ notesRef' = nextNotes

\* an action of the hook was called with an argument
Called(op, argument) == [NoCall EXCEPT !.op = op, !.argument = argument]

\* the 81-character strings a remote state or the initial state holds:
\* GamePuzzle with ".", a digit or "0" at cells 0 and 1 and the given or
\* another digit at cell 2
RemoteString(first, second, third) ==
  <<first, second, third>> \o SubSeq(GamePuzzle, 4, BOARD_SIZE)

RemoteStrings ==
  {RemoteString(".", ".", "8"), RemoteString("6", ".", "8"),
   RemoteString("7", "0", "9")}

\* the notes of a remote state or of the initial state
RemoteNotes ==
  {<< >>,
   [key \in {0} |-> <<7, 6, 6>>],
   [key \in {1, 81} |-> IF key = 1 THEN <<0, 6>> ELSE <<1>>]}

\* the values passed to enterValue
EnteredValues == {0, 6, 7, 10}

\* the values passed to toggleNote
NotedValues == {0, 6}

\* the indices passed to selectCell
SelectedCells == {NULL, -2, 0, 1, 2, 81}

\* useSudokuGame is mounted with an initial state: lines 87-96
GameInit ==
  /\ EngineIdle
  /\ CodecIdle
  /\ lookups = << >>
  /\ PlayIdle
  /\ puzzleBoard = stringToBoard(GamePuzzle).board
  /\ solutionBoard = stringToBoard(GameSolution).board
  /\ givenMap = [index \in Indices |-> puzzleBoard[index] # NULL]
  /\ \E initialState \in [board : RemoteStrings, notes : RemoteNotes] :
        /\ boardRef = mergeBoards(puzzleBoard,
                                  stringToBoard(initialState.board).board)
        /\ notesRef = normalizeNotes(initialState.notes)
  /\ selectedIndex = NULL
  /\ mode = "value"
  /\ guardrailsEnabled \in BOOLEAN
  /\ lastCall = Called("useSudokuGame", NULL)
  /\ RngIdle

selectCell(index) ==
  /\ selectedIndex' =
       IF index = NULL THEN NULL
       ELSE IF index < 0 \/ index >= BOARD_SIZE THEN selectedIndex
       ELSE index
  /\ lastCall' = Called("selectCell", index)
  /\ UNCHANGED <<engineVars, codecVars, lookups, playVars, drawn, memoVars,
                 boardRef, notesRef, mode, guardrailsEnabled>>

setMode(next) ==
  /\ mode' = next
  /\ lastCall' = Called("setMode", next)
  /\ UNCHANGED <<engineVars, codecVars, lookups, playVars, drawn, memoVars,
                 boardRef, notesRef, selectedIndex, guardrailsEnabled>>

clearCell ==
  /\ IF \/ selectedIndex = NULL
        \/ givenMap[selectedIndex]
        \/ boardRef[selectedIndex] = NULL
     THEN /\ lastCall' = Called("clearCell", NULL)
          /\ UNCHANGED <<boardRef, notesRef>>
     ELSE /\ applyState([boardRef EXCEPT ![selectedIndex] = NULL],
                        DeleteNote(notesRef, selectedIndex))
          /\ lastCall' =
               [Called("clearCell", NULL) EXCEPT
                  !.changes = <<emitChange(boardRef', notesRef')>>,
                  !.moves = <<[index |-> selectedIndex,
                               previousValue |-> boardRef[selectedIndex],
                               nextValue |-> NULL]>>]
  /\ UNCHANGED <<engineVars, codecVars, lookups, playVars, drawn, memoVars,
                 selectedIndex, mode, guardrailsEnabled>>

enterValue(value) ==
  /\ IF \/ selectedIndex = NULL
        \/ givenMap[selectedIndex]
        \/ value < 1
        \/ value > 9
        \/ boardRef[selectedIndex] = value
        \/ (guardrailsEnabled /\ solutionBoard[selectedIndex] # value)
     THEN /\ lastCall' = Called("enterValue", value)
          /\ UNCHANGED <<boardRef, notesRef>>
     ELSE /\ applyState([boardRef EXCEPT ![selectedIndex] = value],
                        DeleteNote(notesRef, selectedIndex))
          /\ lastCall' =
               [Called("enterValue", value) EXCEPT
                  !.changes = <<emitChange(boardRef', notesRef')>>,
                  !.moves = <<[index |-> selectedIndex,
                               previousValue |-> boardRef[selectedIndex],
                               nextValue |-> value]>>]
  /\ UNCHANGED <<engineVars, codecVars, lookups, playVars, drawn, memoVars,
                 selectedIndex, mode, guardrailsEnabled>>

toggleNote(value) ==
  /\ IF \/ selectedIndex = NULL
        \/ givenMap[selectedIndex]
        \/ value < 1
        \/ value > 9
     THEN /\ lastCall' = Called("toggleNote", value)
          /\ UNCHANGED <<boardRef, notesRef>>
     ELSE LET existing ==
                IF selectedIndex \in DOMAIN notesRef
                THEN {notesRef[selectedIndex][k] :
                        k \in DOMAIN notesRef[selectedIndex]}
                ELSE {}
              toggled ==
                IF value \in existing THEN existing \ {value}
                ELSE existing \cup {value}
              nextNotes ==
                IF toggled = {} THEN DeleteNote(notesRef, selectedIndex)
                ELSE [key \in DOMAIN notesRef \cup {selectedIndex} |->
                        IF key = selectedIndex THEN SortSet(toggled)
                        ELSE notesRef[key]]
          IN  /\ applyState(boardRef, nextNotes)
              /\ lastCall' =
                   [Called("toggleNote", value) EXCEPT
                      !.changes = <<emitChange(boardRef', notesRef')>>]
  /\ UNCHANGED <<engineVars, codecVars, lookups, playVars, drawn, memoVars,
                 selectedIndex, mode, guardrailsEnabled>>

requestHint ==
  /\ IF \/ selectedIndex = NULL
        \/ givenMap[selectedIndex]
        \/ solutionBoard[selectedIndex] = NULL
        \/ solutionBoard[selectedIndex] = 0
     THEN /\ lastCall' = Called("requestHint", NULL)
          /\ UNCHANGED <<boardRef, notesRef>>
     ELSE LET hintValue == solutionBoard[selectedIndex]
          IN  IF boardRef[selectedIndex] = hintValue
              THEN /\ lastCall' =
                        [Called("requestHint", NULL) EXCEPT
                           !.returned = hintValue]
                   /\ UNCHANGED <<boardRef, notesRef>>
              ELSE /\ applyState([boardRef EXCEPT ![selectedIndex] = hintValue],
                                 DeleteNote(notesRef, selectedIndex))
                   /\ lastCall' =
                        [Called("requestHint", NULL) EXCEPT
                           !.returned = hintValue,
                           !.changes = <<emitChange(boardRef', notesRef')>>,
                           !.moves = <<[index |-> selectedIndex,
                                        previousValue |-> boardRef[selectedIndex],
                                        nextValue |-> hintValue]>>]
  /\ UNCHANGED <<engineVars, codecVars, lookups, playVars, drawn, memoVars,
                 selectedIndex, mode, guardrailsEnabled>>

\* applyRemoteState(remote): stringToBoard throws on a string that is not 81
\* characters long, and then nothing is applied
applyRemoteState(remote) ==
  /\ \E remoteBoard \in {stringToBoard(remote.board)} :
        IF remoteBoard.threw
        THEN /\ lastCall' =
                  [Called("applyRemoteState", remote) EXCEPT !.threw = TRUE]
             /\ UNCHANGED <<boardRef, notesRef>>
        ELSE /\ applyState(mergeBoards(puzzleBoard, remoteBoard.board),
                           normalizeNotes(remote.notes))
             /\ lastCall' = Called("applyRemoteState", remote)
  /\ UNCHANGED <<engineVars, codecVars, lookups, playVars, drawn, memoVars,
                 selectedIndex, mode, guardrailsEnabled>>

resetGame ==
  /\ applyState(puzzleBoard, << >>)
  /\ selectedIndex' = NULL
  /\ mode' = "value"
  /\ lastCall' =
       [Called("resetGame", NULL) EXCEPT
          !.changes = <<emitChange(boardRef', notesRef')>>]
  /\ UNCHANGED <<engineVars, codecVars, lookups, playVars, drawn, memoVars,
                 guardrailsEnabled>>

\* the remote states applied: every string of RemoteStrings without notes,
\* GamePuzzle with each of RemoteNotes, and a string of 80 characters
RemoteStates ==
  [board : RemoteStrings, notes : {<< >>}]
    \cup [board : {GamePuzzle}, notes : RemoteNotes]
    \cup {[board |-> SubSeq(GamePuzzle, 1, BOARD_SIZE - 1), notes |-> << >>]}

GameNext ==
  \/ \E index \in SelectedCells : selectCell(index)
  \/ \E next \in {"value", "note"} : setMode(next)
  \/ clearCell
  \/ \E value \in EnteredValues : enterValue(value)
  \/ \E value \in NotedValues : toggleNote(value)
  \/ requestHint
  \/ \E remote \in RemoteStates : applyRemoteState(remote)
  \/ resetGame

SpecGame == GameInit /\ [][GameNext]_vars

\* ============================================================ properties

\* generateSudoku has returned, and no later call has started
Returned == pc \in {"done", "solved"}

\* ---------------------------------------------------------- generateSudoku

\* C1: the puzzle generateSudoku returned has exactly one completion: when
\* solveSudoku(stringToBoard(puzzle), 2) has returned, its count is 1.
UniquePuzzle ==
  (pc = "solved" /\ limit = 2 /\ input = stringToBoard(result.puzzle).board)
    => solveResult.count = 1

UniquePuzzleWitness ==
  /\ pc = "solved"
  /\ difficulty = "expert"
  /\ limit = 2
  /\ input = stringToBoard(result.puzzle).board
  /\ \E index \in Indices : input[index] = NULL
  /\ solveResult.count = 1

\* C2: every character of the returned puzzle that is not "." is the
\* character of the returned solution at the same place.
GivensMatchSolution ==
  Returned =>
    \A i \in DOMAIN result.puzzle :
       result.puzzle[i] # "." =>
         (i \in DOMAIN result.solution /\ result.puzzle[i] = result.solution[i])

GivensMatchSolutionWitness ==
  /\ pc = "done"
  /\ difficulty = "hard"
  /\ \E i \in DOMAIN result.puzzle : result.puzzle[i] = "."
  /\ \E i \in DOMAIN result.puzzle :
        result.puzzle[i] # "." /\ result.puzzle[i] = result.solution[i]

\* C3: the returned solution is a complete valid grid: decoded, it has 81
\* cells, each a digit 1..9, findConflicts of it is empty and isBoardComplete
\* is true.
SolutionComplete ==
  Returned =>
    LET grid == stringToBoard(result.solution)
    IN  /\ ~grid.threw
        /\ DOMAIN grid.board = Indices
        /\ \A index \in Indices : grid.board[index] \in 1 .. 9
        /\ findConflicts(grid.board) = {}
        /\ isBoardComplete(grid.board)

SolutionCompleteWitness ==
  /\ pc = "done"
  /\ difficulty = "easy"
  /\ ~stringToBoard(result.solution).threw
  /\ isBoardComplete(stringToBoard(result.solution).board)

\* C4: a call of generateSudoku with the difficulty and the seed of a call
\* that returned earlier returns the same puzzle and the same solution,
\* whatever calls were made before the earlier call or between the two.
Deterministic ==
  (Returned /\ golden.set /\ difficulty = golden.difficulty
     /\ seed = golden.seed)
    => result = golden.result

\* a call repeated after a different call was made in between
DeterministicWitness ==
  /\ pc = "done"
  /\ golden.set
  /\ golden.between
  /\ difficulty = golden.difficulty
  /\ seed = golden.seed
  /\ seed.kind = "string"
  /\ result = golden.result

\* C5: the returned puzzle and the returned solution are 81 characters long.
ResultLengths ==
  Returned => (Len(result.puzzle) = 81 /\ Len(result.solution) = 81)

ResultLengthsWitness ==
  /\ pc = "done"
  /\ difficulty = "medium"
  /\ Len(result.puzzle) = 81
  /\ Len(result.solution) = 81

\* ------------------------------------------------------------------ codec

\* the characters of a well-formed serialized board
WellFormedChars == {".", "1", "2", "3", "4", "5", "6", "7", "8", "9"}

WellFormedString(string) ==
  Len(string) = 81 /\ \A k \in 1 .. 81 : string[k] \in WellFormedChars

WellFormedBoard(b) ==
  DOMAIN b = 0 .. 80 /\ \A k \in 0 .. 80 : b[k] = NULL \/ b[k] \in 1 .. 9

\* the digit a character "1".."9" stands for
DigitOf ==
  [c \in WellFormedChars \ {"."} |->
     CASE c = "1" -> 1 [] c = "2" -> 2 [] c = "3" -> 3 [] c = "4" -> 4
       [] c = "5" -> 5 [] c = "6" -> 6 [] c = "7" -> 7 [] c = "8" -> 8
       [] c = "9" -> 9]

\* C6: boardToString(stringToBoard(s)) is s for every 81-character s of "."
\* and "1".."9", and stringToBoard(boardToString(b)) is b for every board b
\* of 81 cells that are blank or 1..9.
RoundTrip ==
  /\ (codecStep = "reencoded" /\ WellFormedString(serialized))
       => (~reencoded.threw /\ reencoded.string = serialized)
  /\ (codecStep = "decoded" /\ WellFormedString(serialized))
       => ~decoded.threw
  /\ (codecStep = "redecoded" /\ WellFormedBoard(boardIn))
       => (~redecoded.threw /\ redecoded.board = boardIn)
  /\ (codecStep = "encoded" /\ WellFormedBoard(boardIn))
       => ~encoded.threw

RoundTripWitness ==
  /\ codecStep = "reencoded"
  /\ WellFormedString(serialized)
  /\ serialized[1] = "."
  /\ serialized[2] = "7"
  /\ reencoded.string = serialized

\* C7: stringToBoard throws for every input whose length is not 81, having
\* converted no character and returning no board; for every input of length
\* 81 it returns a board of 81 cells and does not throw.
LengthChecked ==
  codecStep \in {"decoded", "reencoded"} =>
    IF Len(serialized) # 81
    THEN decoded.threw /\ decoded.converted = 0 /\ decoded.board = << >>
    ELSE ~decoded.threw /\ DOMAIN decoded.board = 0 .. 80

LengthCheckedWitness ==
  /\ codecStep = "decoded"
  /\ Len(serialized) = 82
  /\ decoded.threw
  /\ decoded.converted = 0

\* C8: for an input of 81 characters, each cell of stringToBoard's board is
\* the digit of its character when that is "1".."9" and blank for every
\* other character, so each cell is blank or in 1..9.
CharMapping ==
  (codecStep \in {"decoded", "reencoded"} /\ Len(serialized) = 81) =>
    \A k \in 1 .. 81 :
       /\ decoded.board[k - 1] =
            IF serialized[k] \in DOMAIN DigitOf THEN DigitOf[serialized[k]]
            ELSE NULL
       /\ decoded.board[k - 1] = NULL \/ decoded.board[k - 1] \in 1 .. 9

CharMappingWitness ==
  /\ codecStep = "decoded"
  /\ Len(serialized) = 81
  /\ serialized[1] = "0"
  /\ serialized[2] = "5"
  /\ decoded.board[0] = NULL
  /\ decoded.board[1] = 5

\* ------------------------------------------------------------------ PEERS

SameRow(i, j) == i \div 9 = j \div 9

SameColumn(i, j) == i % 9 = j % 9

SameBox(i, j) ==
  (i \div 27 = j \div 27) /\ ((i % 9) \div 3 = (j % 9) \div 3)

\* C9: the peers of every index i are exactly 20 indices, those other than
\* i in i's row, column or box; i is not among them; and j is a peer of i
\* exactly when i is a peer of j.
PeerShape ==
  /\ \A k \in DOMAIN lookups :
        LET i == lookups[k].index
            peers == lookups[k].peers
        IN  /\ Cardinality(peers) = 20
            /\ peers = {j \in 0 .. 80 :
                          j # i /\ (SameRow(i, j) \/ SameColumn(i, j)
                                      \/ SameBox(i, j))}
            /\ i \notin peers
  /\ Len(lookups) = 2 =>
        (lookups[2].index \in lookups[1].peers
           <=> lookups[1].index \in lookups[2].peers)

PeerShapeWitness ==
  /\ Len(lookups) = 2
  /\ lookups[1].index = 0
  /\ lookups[2].index = 20
  /\ 20 \in lookups[1].peers
  /\ 0 \in lookups[2].peers
  /\ Cardinality(lookups[2].peers) = 20

\* ----------------------------------------------------------- findConflicts

\* C10: findConflicts returns exactly the filled cells that have a peer
\* holding the same value; for the board blank but for 5 at 0 and 5 at 1 it
\* contains 0 and 1.
ConflictSet ==
  playStep = "checked" =>
    /\ conflicts =
         {i \in 0 .. 80 :
            play[i] # NULL /\ \E j \in 0 .. 80 :
               /\ j # i
               /\ SameRow(i, j) \/ SameColumn(i, j) \/ SameBox(i, j)
               /\ play[j] = play[i]}
    /\ (play = [EmptyBoard EXCEPT ![0] = 5, ![1] = 5])
         => {0, 1} \subseteq conflicts

ConflictSetWitness ==
  /\ playStep = "checked"
  /\ play = [EmptyBoard EXCEPT ![0] = 5, ![1] = 5]
  /\ conflicts = {0, 1}

\* ------------------------------------------------------------ validateMove

RowCells(u) == {i \in 0 .. 80 : i \div 9 = u}

ColumnCells(u) == {i \in 0 .. 80 : i % 9 = u}

BoxCells(u) == {i \in 0 .. 80 : (i \div 27) * 3 + (i % 9) \div 3 = u}

\* each digit 1..9 is held by exactly one cell of the unit
EachDigitOnce(b, unit) ==
  \A d \in 1 .. 9 : Cardinality({i \in unit : b[i] = d}) = 1

\* C12: isBoardComplete is true exactly when every cell is filled and
\* findConflicts is empty, and, on a board of blanks and digits 1..9, exactly
\* when every row, column and box holds each digit 1..9 once.
CompleteMeansSolved ==
  playStep = "completeChecked" =>
    /\ complete =
         ((\A i \in 0 .. 80 : play[i] # NULL) /\ findConflicts(play) = {})
    /\ complete =
         (\A u \in 0 .. 8 :
            /\ EachDigitOnce(play, RowCells(u))
            /\ EachDigitOnce(play, ColumnCells(u))
            /\ EachDigitOnce(play, BoxCells(u)))

\* the solved grid with its 7s and 8s exchanged at 25, 26, 34, 35
CompleteMeansSolvedWitness ==
  /\ playStep = "completeChecked"
  /\ play = [SolvedGrid EXCEPT ![25] = 7, ![26] = 8, ![34] = 8, ![35] = 7]
  /\ complete

\* ------------------------------------------------------------ the Carver

\* the number of "." in a string
Dots(string) == Cardinality({i \in DOMAIN string : string[i] = "."})

\* the number of blank cells of a board
Blanks(b) == Cardinality({index \in DOMAIN b : b[index] = NULL})

\* buildPuzzleFromSolution is running, between two iterations or inside the
\* uniqueness check of one
Carving == pc = "carve" \/ (pc = "solve" /\ caller = "carve")

\* C16: the puzzle generateSudoku returns has at most the difficulty's target
\* of "." cells; the loop takes the 81 positions one by one, each once, and
\* takes no position once the target is reached, so the count is the target
\* unless all 81 positions were taken.
BlankBound ==
  /\ Carving =>
       /\ Len(positions) = 81
       /\ {positions[k] : k \in 1 .. 81} = Indices
       /\ cursor \in 0 .. 81
       /\ removed <= difficultyToEmpties[difficulty]
       /\ pc = "solve" => removed < difficultyToEmpties[difficulty]
       /\ Blanks(puzzle) = removed + (IF pc = "solve" THEN 1 ELSE 0)
       /\ \A index \in Indices :
             puzzle[index] = NULL =>
               \E k \in 1 .. cursor + (IF pc = "solve" THEN 1 ELSE 0) :
                  positions[k] = index
  /\ pc = "done" =>
       /\ Dots(result.puzzle) <= difficultyToEmpties[difficulty]
       /\ Dots(result.puzzle) = removed
       /\ \/ Dots(result.puzzle) = difficultyToEmpties[difficulty]
          \/ cursor = 81

\* the target of "hard" is reached before the positions run out
BlankBoundWitness ==
  /\ pc = "done"
  /\ difficulty = "hard"
  /\ Dots(result.puzzle) = 53
  /\ cursor < 81

\* C17: generateSudoku does not end in an error: fillBoard started on the
\* empty board returns true, so generateSolvedBoard does not throw, and
\* buildPuzzleFromSolution returns a puzzle when the positions run out before
\* the target is reached.
NeverThrows ==
  /\ pc # "threw"
  /\ (pc = "fill" /\ fillMode = "ret" /\ fillStack = << >>) => fillRet
  /\ (pc = "carve" /\ cursor >= Len(positions)) =>
       removed <= difficultyToEmpties[difficulty]
  /\ pc = "done" => Len(result.puzzle) = 81

\* a puzzle returned with fewer blanks than the target of "expert"
NeverThrowsWitness ==
  /\ pc = "done"
  /\ difficulty = "expert"
  /\ cursor = 81
  /\ Dots(result.puzzle) < 58
  /\ Dots(result.puzzle) > 0

\* ------------------------------------------------------------- solveSudoku

\* i and j are different cells of one row, column or box
Related(i, j) ==
  i # j /\ (SameRow(i, j) \/ SameColumn(i, j) \/ SameBox(i, j))

\* the cells related to each cell
RelatedTo == [i \in 0 .. 80 |-> {j \in 0 .. 80 : Related(i, j)}]

\* no two related cells of b hold the same value
ConflictFree(b) ==
  \A i \in 0 .. 80 : b[i] # NULL => \A j \in RelatedTo[i] : b[j] # b[i]

\* the full boards that agree with b on its filled cells and put in each
\* blank cell, lowest first, a digit no related cell holds
RECURSIVE Extensions(_)
Extensions(b) ==
  LET blanks == {i \in 0 .. 80 : b[i] = NULL}
  IN  IF blanks = {} THEN {b}
      ELSE LET i == CHOOSE k \in blanks : \A m \in blanks : k <= m
               free == {d \in 1 .. 9 : \A j \in RelatedTo[i] : b[j] # d}
           IN  UNION {Extensions([b EXCEPT ![i] = d]) : d \in free}

\* the completions of b: the full boards of digits 1..9 without conflict
\* that agree with b on every filled cell
Completions(b) == IF ConflictFree(b) THEN Extensions(b) ELSE {}

Min(a, b) == IF a <= b THEN a ELSE b

\* a caller's solveSudoku(input, limit) is running or has returned
ClientSolve == caller = "client" /\ pc \in {"solve", "solved"}

\* C13: the count solveSudoku returns never exceeds the limit, for every
\* limit >= 0, and the search stops once the counter has reached the limit.
CountCapped ==
  /\ ClientSolve => solutions <= limit
  /\ (ClientSolve /\ pc = "solved") => solveResult.count <= limit
  /\ (ClientSolve /\ pc = "solve" /\ solutions > 0 /\ solutions >= limit)
       => (searchMode = "ret" /\ searchRet)

\* C14: when the returned count is below the limit it is the number of
\* completions of the board, and for a limit >= 1 it is the smaller of the
\* limit and that number.
CountExact ==
  (ClientSolve /\ pc = "solved") =>
    LET n == Cardinality(Completions(input))
    IN  /\ solveResult.count < limit => solveResult.count = n
        /\ limit >= 1 => solveResult.count = Min(limit, n)

\* the shape of what solveSudoku returned
ResultShape ==
  IF solveResult.count = 0 THEN solveResult.solution = NoSolution
  ELSE /\ solveResult.solution # NoSolution
       /\ DOMAIN solveResult.solution = 0 .. 80
       /\ \A i \in 0 .. 80 :
             /\ solveResult.solution[i] \in 1 .. 9
             /\ input[i] # NULL => solveResult.solution[i] = input[i]
       /\ ConflictFree(solveResult.solution)

\* the first solution search() reaches is recorded, and kept from then on
FirstFound ==
  IF firstSolution = NoSolution
  THEN \/ firstSolution' = NoSolution
       \/ /\ solutions' = 1
          /\ firstSolution' = state
  ELSE firstSolution' = firstSolution

\* C15: for a board without conflict and a limit >= 1, the solution
\* returned is null exactly when the count is 0, and otherwise is the first
\* completion found: 81 digits 1..9 without conflict that agree with the
\* board on every filled cell.
SolverShape ==
  [][(ClientSolve /\ limit >= 1 /\ ConflictFree(input))
       => /\ pc = "solve" => FirstFound
          /\ pc' = "solved" => ResultShape']_vars

\* the board with the 7s and 8s blanked has several completions
SolverShapeWitness ==
  /\ ClientSolve
  /\ pc = "solved"
  /\ limit = 3
  /\ ConflictFree(input)
  /\ \E i \in 0 .. 80 : input[i] = NULL
  /\ solveResult.count = 3
  /\ solveResult.solution # NoSolution

\* C19: solveSudoku, findConflicts, isBoardComplete and validateMove leave
\* the board passed to them as it was.
BoardUntouched == [][input' = input]_vars

\* search() has written to its copy, the validators have run, and the
\* caller's board still has its blank cells
BoardUntouchedWitness ==
  /\ pc = "solved"
  /\ playStep = "inspected"
  /\ solveResult.count >= 1
  /\ \E i \in 0 .. 80 : input[i] = NULL /\ state[i] # NULL

\* the digits no cell related to cell i holds on b
Free(b, i) == {d \in 1 .. 9 : \A j \in RelatedTo[i] : b[j] # d}

\* search() is being entered on a state with a blank cell
Searching ==
  /\ pc = "solve"
  /\ searchMode = "call"
  /\ \E i \in 0 .. 80 : state[i] = NULL

\* C20: at every entry of search() on a state with a blank cell, the cell
\* findBestCell chooses is blank, no blank cell has fewer candidate digits,
\* and no blank cell with as few has a lower index; so when some blank cell
\* has no candidate the chosen cell has none, and search() returns without
\* placing a digit.
MinRemaining ==
  Searching =>
    LET chosen == findBestCell(DIGITS, state)
        blanks == {i \in 0 .. 80 : state[i] = NULL}
    IN  /\ chosen \in blanks
        /\ \A i \in blanks :
              /\ Cardinality(Free(state, chosen)) <= Cardinality(Free(state, i))
              /\ Cardinality(Free(state, chosen)) = Cardinality(Free(state, i))
                   => chosen <= i
        /\ (\E i \in blanks : Free(state, i) = {})
             => Candidates(DIGITS, state, chosen) = << >>

\* -------------------------------------------------------------- the hook

\* C18: with guardrails enabled, enterValue(value) rejects every value for
\* which validateMove(board, selectedIndex, value) is false: the board stays
\* as it was and neither onChange nor onMove is called.
GuardrailsReject ==
  [][(/\ lastCall'.op = "enterValue"
      /\ guardrailsEnabled
      /\ selectedIndex # NULL
      /\ ~validateMove(boardRef, selectedIndex, lastCall'.argument))
       => /\ boardRef' = boardRef
          /\ lastCall'.changes = << >>
          /\ lastCall'.moves = << >>]_vars

\* ------------------------------------------------------------ validators

\* C27: for a value 1..9, validateMove(board, index, value) is true exactly
\* when index is not in findConflicts of the board with the value written at
\* index.
ValidatorsAgree ==
  playStep = "committed" => (move.ok <=> move.index \notin conflicts)

\* a move accepted on a filled cell of a board that has a conflict elsewhere
ValidatorsAgreeWitness ==
  /\ playStep = "committed"
  /\ move.ok
  /\ play[move.index] # NULL
  /\ play[move.index] # move.value
  /\ conflicts # {}
  /\ move.index \notin conflicts

\* ----------------------------------------------------- the hook's board

\* C28: after any sequence of the hook's actions every given cell of the
\* puzzle holds the puzzle's digit, and every other cell is blank or holds a
\* digit 1..9.
GivensKept ==
  lastCall.op # "none" =>
    /\ DOMAIN boardRef = Indices
    /\ \A index \in Indices :
          IF index \in GameBlanks
          THEN boardRef[index] \in {NULL} \cup (1 .. 9)
          ELSE boardRef[index] = SolvedDigits[index + 1]

\* a remote board with another digit in a given cell and "0" in a blank one
\* was applied
GivensKeptWitness ==
  /\ lastCall.op = "applyRemoteState"
  /\ ~lastCall.threw
  /\ lastCall.argument.board[3] = "9"
  /\ lastCall.argument.board[2] = "0"
  /\ boardRef[2] = 8
  /\ boardRef[1] = NULL
  /\ boardRef[0] = 7

\* ------------------------------------------------- puzzle and solution

\* C24: the grid solveSudoku(stringToBoard(puzzle), 2) finds is, cell for
\* cell, the solution string the same generateSudoku call returned; the
\* carving leaves the solved grid as fillBoard filled it.
PuzzleSolvesToSolution ==
  /\ (Carving \/ pc = "done") =>
       \A index \in Indices : solved[index] = board[index]
  /\ (pc = "solved" /\ limit = 2
        /\ input = stringToBoard(result.puzzle).board) =>
       /\ Len(result.solution) = 81
       /\ solveResult.solution # NoSolution
       /\ \A index \in Indices :
             /\ solveResult.solution[index] \in 1 .. 9
             /\ solveResult.solution[index] = solved[index]
             /\ DigitChars[solveResult.solution[index] + 1]
                  = result.solution[index + 1]

\* the puzzle of "expert" is solved back to the solution returned with it
PuzzleSolvesToSolutionWitness ==
  /\ pc = "solved"
  /\ difficulty = "expert"
  /\ limit = 2
  /\ input = stringToBoard(result.puzzle).board
  /\ Blanks(input) > 50
  /\ solveResult.solution # NoSolution
  /\ \A index \in Indices :
        DigitChars[solveResult.solution[index] + 1] = result.solution[index + 1]

\* ------------------------------------------------- one seed, two difficulties

\* the places of the "." of a string
DotSet(string) == {i \in DOMAIN string : string[i] = "."}

\* the difficulties from the easiest to the hardest
Harder == <<"easy", "medium", "hard", "expert">>

AtMostAsHard(d, e) ==
  \E i, j \in DOMAIN Harder : i <= j /\ Harder[i] = d /\ Harder[j] = e

\* C25: two calls of generateSudoku with one seed return the same solution,
\* and the blank cells of the puzzle of the easier difficulty are blank cells
\* of the puzzle of the harder one.
DifficultyNesting ==
  (Returned /\ golden.set /\ seed = golden.seed) =>
    /\ result.solution = golden.result.solution
    /\ AtMostAsHard(golden.difficulty, difficulty) =>
         /\ DotSet(golden.result.puzzle) \subseteq DotSet(result.puzzle)
         /\ Dots(golden.result.puzzle) <= Dots(result.puzzle)
    /\ AtMostAsHard(difficulty, golden.difficulty) =>
         /\ DotSet(result.puzzle) \subseteq DotSet(golden.result.puzzle)
         /\ Dots(result.puzzle) <= Dots(golden.result.puzzle)

\* "medium" after "hard" with the same seed: strictly fewer blank cells
DifficultyNestingWitness ==
  /\ pc = "done"
  /\ golden.set
  /\ seed = golden.seed
  /\ golden.difficulty = "hard"
  /\ difficulty = "medium"
  /\ result.solution = golden.result.solution
  /\ DotSet(result.puzzle) \subseteq DotSet(golden.result.puzzle)
  /\ DotSet(result.puzzle) # DotSet(golden.result.puzzle)

\* ---------------------------------------------------------------- shuffle

\* array has the length of items and holds each value as many times
PermutationOf(array, items) ==
  /\ Len(array) = Len(items)
  /\ \A v \in {items[k] : k \in DOMAIN items} :
        Cardinality({k \in DOMAIN array : array[k] = v})
          = Cardinality({k \in DOMAIN items : items[k] = v})

\* C29: what shuffle returns is a permutation of its argument, which it
\* leaves as it was: the digits fillBoard goes through are a permutation of
\* DIGITS, the positions of the carving a permutation of 0..80, and DIGITS
\* is 1..9 in ascending order at every point of the calls.
ShufflePermutes ==
  /\ DIGITS = <<1, 2, 3, 4, 5, 6, 7, 8, 9>>
  /\ (pc = "fill" /\ fillStack # << >> /\ Top(fillStack).order # << >>) =>
       PermutationOf(Top(fillStack).order, <<1, 2, 3, 4, 5, 6, 7, 8, 9>>)
  /\ (pc = "carve" /\ cursor = 0) =>
       PermutationOf(positions, [k \in 1 .. 81 |-> k - 1])
  /\ Carving =>
       (Len(positions) = 81 /\ {positions[k] : k \in 1 .. 81} = 0 .. 80)

\* fillBoard has shuffled DIGITS for each of the 81 cells
ShufflePermutesWitness ==
  /\ pc = "fill"
  /\ Len(fillStack) = 81
  /\ \A k \in 1 .. 81 :
        PermutationOf(fillStack[k].order, <<1, 2, 3, 4, 5, 6, 7, 8, 9>>)
  /\ \E k \in 1 .. 81 : fillStack[k].order # <<1, 2, 3, 4, 5, 6, 7, 8, 9>>
  /\ DIGITS = <<1, 2, 3, 4, 5, 6, 7, 8, 9>>

\* ------------------------------------------------------- createSeededRandom

\* a 32-bit word: an integer n with 0 <= n <= 2^32 - 1, held as its two
\* 16-bit halves
InWord(w) == w.h \in 0 .. 65535 /\ w.l \in 0 .. 65535

\* C30: every call of the generator returns n / 2^32 for an integer n with
\* 0 <= n <= 2^32 - 1, its state stays a 32-bit integer, and the index
\* Math.floor(float * (i + 1)) is in 0..i.
RandomInRange ==
  /\ InWord(rng)
  /\ drawn.calls > 0 =>
       /\ InWord(drawn.n)
       /\ drawn.j \in 0 .. drawn.i

\* the highest index is drawn, from a generator made of a string seed
RandomInRangeWitness ==
  /\ seed.kind = "string"
  /\ drawn.calls >= 2
  /\ drawn.i = 8
  /\ drawn.j = 8
  /\ drawn.n.h >= 58254

\* ------------------------------------------------------------ termination

\* C21: solveSudoku returns for every board and every limit, the default
\* Infinity included; each search() that waits for a recursive call has
\* filled one blank cell, so the calls waiting are never more than the blank
\* cells of the board, at most 81.
SolverTerminates ==
  /\ [](ClientSolve =>
          /\ Len(searchStack) <= Blanks(input)
          /\ Blanks(input) <= 81
          /\ (pc = "solve" /\ (searchMode = "call" \/ ~searchRet)) =>
               Blanks(state) + Len(searchStack) = Blanks(input))
  /\ (pc = "solve") ~> (pc = "solved")

\* every completion of a board with twenty blank cells was counted
SolverTerminatesWitness ==
  /\ ClientSolve
  /\ pc = "solved"
  /\ limit = Infinity
  /\ Blanks(input) >= 18
  /\ solveResult.count >= 2


\* ---------------------------------------------------------------- filler

\* the calls of fillBoard waiting for a recursive call, before or after the
\* step
LiveFrames ==
  {fillStack[p] : p \in DOMAIN fillStack} \cup {fillStack'[p] : p \in DOMAIN fillStack'}

\* a step of fillBoard in which a call returned `ret`: to the call on top
\* of the stack or, without having called itself, at once
FillReturned(ret) ==
  /\ fillRet' = ret
  /\ \/ Len(fillStack') < Len(fillStack)
     \/ fillMode = "call" /\ fillMode' = "ret"

\* the board at the entry of the call that returns in this step, and the
\* index it was called with
ReturningEntry ==
  IF Len(fillStack') < Len(fillStack) THEN Top(fillStack).entry ELSE board

ReturningIndex ==
  IF Len(fillStack') < Len(fillStack) THEN Top(fillStack).index ELSE fillIndex

\* C22: fillBoard writes a digit only into a cell that is blank, the cell of
\* the call that writes, and only when no peer holds the digit; a cell that
\* was filled when a call was entered is never changed by it; when a call
\* returns false the board is cell for cell the board at its entry; when it
\* returns true no cell at or after its index is blank.
FillDiscipline ==
  [][(pc = "fill" /\ pc' = "fill") =>
       /\ \A i \in Indices :
             (board'[i] # board[i] /\ board'[i] # NULL) =>
                /\ fillStack' # << >>
                /\ Top(fillStack').index = i
                /\ Top(fillStack').entry[i] = NULL
                /\ board' = [Top(fillStack').entry EXCEPT ![i] = board'[i]]
                /\ board'[i] \in 1 .. 9
                /\ isValidPlacement(board', i, board'[i])
       /\ \A frame \in LiveFrames : \A i \in Indices :
             frame.entry[i] # NULL => board'[i] = frame.entry[i]
       /\ FillReturned(FALSE) => board' = ReturningEntry
       /\ FillReturned(TRUE) =>
             \A i \in Indices : i >= ReturningIndex => board'[i] # NULL
    ]_vars

\* the first blank cell of the board at or after index, BOARD_SIZE if none
FirstBlank(b, index) ==
  LET blank == {i \in Indices : i >= index /\ b[i] = NULL}
  IN  IF blank = {} THEN BOARD_SIZE ELSE CHOOSE i \in blank : \A m \in blank : i <= m

\* fillBoard returned false on a board whose first blank cell could take a
\* digit: the digit was placed, the recursive call failed, and the board is
\* again the board that was passed
FillDisciplineWitness ==
  /\ pc = "filled"
  /\ ~fillRet
  /\ board = input
  /\ FirstBlank(input, fillIndex) < BOARD_SIZE
  /\ \E digit \in 1 .. 9 :
        isValidPlacement(input, FirstBlank(input, fillIndex), digit)

\* C23: fillBoard returns, true or false, for every starting board and
\* every random stream; the calls waiting for a recursive call are at most
\* 81, each for the index after the one below it, and each tries at most 9
\* digits.
FillerTerminates ==
  /\ [](pc = "fill" =>
          /\ Len(fillStack) <= BOARD_SIZE
          /\ \A p \in DOMAIN fillStack :
                /\ fillStack[p].index \in Indices
                /\ fillStack[p].index = fillStack[1].index + (p - 1)
                /\ Len(fillStack[p].order) <= 9
                /\ fillStack[p].k <= Len(fillStack[p].order)
          /\ (fillMode = "call" /\ fillStack # << >>) =>
                fillIndex = Top(fillStack).index + 1)
  /\ (pc = "fill") ~> (pc = "filled")

\* fillBoard returned true on the empty board, all 81 cells filled
FillerTerminatesWitness ==
  /\ pc = "filled"
  /\ fillRet
  /\ input = EmptyBoard
  /\ Blanks(board) = 0
  /\ seed = SeedList[2]

\* ---------------------------------------------------------------- carver

\* C26: when buildPuzzleFromSolution returned a puzzle with fewer blanks
\* than the target, the puzzle less any one of its givens has two solutions:
\* solveSudoku(., 2).count is 2.
ShortfallMinimal ==
  (/\ pc = "solved"
   /\ Blanks(puzzle) < difficultyToEmpties[difficulty]
   /\ \E index \in Indices :
         puzzle[index] # NULL /\ input = [puzzle EXCEPT ![index] = NULL])
    => solveResult.count = 2

\* an expert puzzle of 57 blanks for a target of 58, less a given
ShortfallMinimalWitness ==
  /\ pc = "solved"
  /\ difficulty = "expert"
  /\ Blanks(puzzle) = 57
  /\ Blanks(input) = 58
  /\ \E index \in Indices :
        puzzle[index] # NULL /\ input = [puzzle EXCEPT ![index] = NULL]
  /\ solveResult.count = 2

====
